---------------------------- MODULE Spec2Model ----------------------------
(***************************************************************************)
(* Sensor data ingestion of study_framework_core: the DataProcessor of      *)
(* core/processing_scripts.py (batch queue, classification of raw rows by  *)
(* type code, archiving of containers) and the upload path of              *)
(* core/handlers.py (save_file).  Further specifications of the module     *)
(* cover the Garmin FIT files (SpecGarmin), same-named files (SpecFiles),  *)
(* the daily summaries (SpecSummary, SpecLocation, SpecGarminInfo), the    *)
(* timestamp normalisation (SpecTimestamp), the selection of users by      *)
(* login (SpecSelect), a full scheduled run (SpecRun, SpecRunFair), two    *)
(* runs at once (SpecConcurrent), the EMA part of the summaries (SpecEma), *)
(* the classifier on its own (SpecClassify) and the endpoints of           *)
(* core/api.py that write (SpecApi); each has its own initial predicate    *)
(* and next-state relation over the same variables.                        *)
(*                                                                         *)
(* Timestamps.  _handle_timestamp_format returns float seconds.  A float   *)
(* t is written <<whole seconds, milliseconds>>, which is exact for the    *)
(* integer raw timestamps the model draws.                                 *)
(***************************************************************************)
EXTENDS Integers, Sequences, FiniteSets, TLC

(***************************************************************************)
(* Bounds of the model.                                                    *)
(***************************************************************************)
\* Rows held by all uploaded containers together.
MaxRows == 3
\* DataProcessor.batch_size (2000 in the source, processing_scripts.py:33),
\* scaled down so that the threshold is reached by the bounded inputs.
batch_size == 2

(***************************************************************************)
(* The store: destination collections and their unique indexes.            *)
(***************************************************************************)
IOS_LOCATION == "ios_location"
IOS_BRIGHTNESS == "ios_brightness"
IOS_BLUETOOTH == "ios_bluetooth"
IOS_WIFI == "ios_wifi"
IOS_BATTERY == "ios_battery"
IOS_LOCK_UNLOCK == "ios_lock_unlock"
IOS_STEPS == "ios_steps"
IOS_ACTIVITY == "ios_activity"
IOS_ACCELEROMETER == "ios_accelerometer"
IOS_CALLLOG == "ios_calllog"
GARMIN_HR == "garmin_hr"
GARMIN_STRESS == "garmin_stress"
EMA_RESPONSE == "ema_response"
EMA_STATUS_EVENTS == "ema_status_events"
APP_USAGE_LOGS == "app_usage_logs"
NOTIFICATION_EVENTS == "notification_events"
UNKNOWN_EVENTS == "unknown_events_data"
DAILY_SUMMARY == "daily_summaries"
USERS == "users"

\* The collections _process_event_by_id can write to.
Collections ==
    { IOS_LOCATION, IOS_BRIGHTNESS, IOS_BLUETOOTH, IOS_WIFI, IOS_BATTERY,
      IOS_LOCK_UNLOCK, IOS_STEPS, IOS_ACTIVITY, IOS_ACCELEROMETER, IOS_CALLLOG,
      GARMIN_HR, GARMIN_STRESS, EMA_RESPONSE, EMA_STATUS_EVENTS,
      APP_USAGE_LOGS, NOTIFICATION_EVENTS, UNKNOWN_EVENTS }

\* init_collections: the unique index of a collection, as the value a
\* document has under it.  ios_location and ios_wifi index
\* (uid, timestamp, event_id), every other collection (uid, timestamp);
\* ios_steps indexes (uid, start_timestamp), the field its documents carry
\* the normalised row timestamp in (written timestamp in the model).
IndexKey(coll, doc) ==
    IF coll \in {IOS_LOCATION, IOS_WIFI}
    THEN <<doc.uid, doc.timestamp, doc.event_id>>
    ELSE <<doc.uid, doc.timestamp>>

(***************************************************************************)
(* Timestamp normalisation.                                                *)
(***************************************************************************)
RECURSIVE NumDigits(_)
\* len(str(n)) of a non-negative integer n.
NumDigits(n) == IF n < 10 THEN 1 ELSE 1 + NumDigits(n \div 10)

\* _handle_timestamp_format on an integer raw timestamp: a 10 digit value is
\* seconds, any other value is milliseconds and is divided by 1000.
HandleTimestampFormat(t) ==
    IF NumDigits(t) = 10 THEN <<t, 0>> ELSE <<t \div 1000, t % 1000>>

(***************************************************************************)
(* Raw rows and their classification.                                      *)
(*                                                                         *)
(* A row is (uuid1, uuid2, timestamp, event_id, event_data): ts is row[2], *)
(* code is row[3], ncols is len(row), and payload says whether a handler   *)
(* can decode, parse and coerce row[4] ("ok") or raises on it              *)
(* ("malformed").                                                          *)
(***************************************************************************)
\* The if/elif chain of _process_event_by_id: the handler of a type code.
HandlerOf(code) ==
    CASE code \in {152, 151} -> "location"
      [] code = 16           -> "activity"
      [] code = 21           -> "steps"
      [] code \in {11, 111}  -> "battery"
      [] code \in {18, 181}  -> "wifi"
      [] code = 19           -> "bluetooth"
      [] code = 13           -> "brightness"
      [] code = 14           -> "lock_unlock"
      [] code = 447          -> "accelerometer"
      [] code = 23           -> "calllog"
      [] code = 442          -> "garmin_hr"
      [] code = 443          -> "garmin_stress"
      [] code = 501          -> "app_usage"
      [] code = 502          -> "ema_response"
      [] code = 503          -> "ema_status"
      [] code = 504          -> "notification"
      [] OTHER               -> "unknown"

\* The collection a handler passes to add_record.
HandlerCollection(h) ==
    CASE h = "location"      -> IOS_LOCATION
      [] h = "activity"      -> IOS_ACTIVITY
      [] h = "steps"         -> IOS_STEPS
      [] h = "battery"       -> IOS_BATTERY
      [] h = "wifi"          -> IOS_WIFI
      [] h = "bluetooth"     -> IOS_BLUETOOTH
      [] h = "brightness"    -> IOS_BRIGHTNESS
      [] h = "lock_unlock"   -> IOS_LOCK_UNLOCK
      [] h = "accelerometer" -> IOS_ACCELEROMETER
      [] h = "calllog"       -> IOS_CALLLOG
      [] h = "garmin_hr"     -> GARMIN_HR
      [] h = "garmin_stress" -> GARMIN_STRESS
      [] h = "app_usage"     -> APP_USAGE_LOGS
      [] h = "ema_response"  -> EMA_RESPONSE
      [] h = "ema_status"    -> EMA_STATUS_EVENTS
      [] h = "notification"  -> NOTIFICATION_EVENTS
      [] OTHER               -> UNKNOWN_EVENTS

\* The `if len(row) >= N` guard of a handler.
HandlerMinCols(h) ==
    IF h \in {"location", "battery", "wifi", "brightness", "lock_unlock", "unknown"}
    THEN 5 ELSE 4

\* The value a handler stores as event_id: row[3] for the handlers of the
\* core sensors and for the unknown sink, row[2] for the others.
HandlerEventId(h, row) ==
    IF h \in {"location", "activity", "steps", "battery", "wifi", "bluetooth",
              "brightness", "lock_unlock", "unknown"}
    THEN row.code ELSE row.ts

\* One handler call (_process_location_record, ..., _process_unknown_event_record):
\* the records it hands to add_record, as a set of <<collection, document>>.
\* Below the guard nothing happens.  Past the guard the handler reads row[4]
\* and decodes it; an IndexError or a decoding error is caught by the
\* handler's own except clause, logged, and no record is built.  The unknown
\* handler only applies str() to row[4], which cannot fail.
HandleRecord(user, row) ==
    LET h == HandlerOf(row.code) IN
    IF row.ncols < HandlerMinCols(h) THEN {}
    ELSE IF row.ncols < 5 THEN {}
    ELSE IF h # "unknown" /\ row.payload # "ok" THEN {}
    ELSE { << HandlerCollection(h),
              [uid |-> user,
               timestamp |-> HandleTimestampFormat(row.ts),
               event_id |-> HandlerEventId(h, row)] >> }

\* The body of the row loop of _process_ios_database: rows of fewer than
\* four columns are skipped, the others go to _process_event_by_id.
ProcessRow(user, row) ==
    IF row.ncols >= 4 THEN HandleRecord(user, row) ELSE {}

(***************************************************************************)
(* The batch queue.                                                        *)
(***************************************************************************)
VARIABLES
    upload,      \* files under data_upload_path/phone/<uid>
    processed,   \* files under data_processed_path/phone/<uid>
    store,       \* the documents of every destination collection
    down,        \* the collection whose bulk writes fail ("none": no outage)
    records,     \* DataProcessor.records: the buffer of every collection
    recOrder,    \* the keys of DataProcessor.records in insertion order
    pc,          \* position of the run
    queue,       \* users process_all_data has still to visit
    todo,        \* globbed containers _process_sensor_data has still to visit
    cur,         \* the container being read (a set of at most one file)
    idx,         \* index of the next row of cur
    input,       \* the containers uploaded at the start
    phase,       \* 1: first presentation of input, 2: input presented again
    baseline,    \* documents per collection when input was presented again
    last,        \* the step just taken and what it produced
    summaries,   \* the documents of the daily_summaries collection
    now,         \* datetime.now(), in whole seconds
    users,       \* the documents of the users collection
    api          \* what else the API writes: user_pings and saved JSON files

vars == << upload, processed, store, down, records, recOrder, pc, queue, todo,
           cur, idx, input, phase, baseline, last, summaries, now, users, api >>

RECURSIVE InsertMany(_, _, _)
\* collection.insert_many(batch, ordered=False) on a collection holding docs:
\* every document is tried, one whose unique index value is already taken is
\* rejected, and a rejection makes the call raise BulkWriteError afterwards.
\* A buffered document that was inserted before is rejected as well (its _id
\* and its index value are taken).
InsertMany(coll, docs, batch) ==
    IF batch = << >> THEN [docs |-> docs, dup |-> FALSE]
    ELSE LET d == Head(batch)
             clash == \E e \in docs : IndexKey(coll, e) = IndexKey(coll, d)
             rest == InsertMany(coll, IF clash THEN docs ELSE docs \cup {d},
                                Tail(batch))
         IN  [docs |-> rest.docs, dup |-> clash \/ rest.dup]

RECURSIVE FlushRecords(_, _, _)
\* flush_records over the collections of `order`: one try block around the
\* whole loop, so the first insert_many that raises ends the call, with its
\* buffer uncleared and the later collections unvisited.  err tells how the
\* call ended: "none", "dup" (BulkWriteError) or "write" (the collection is
\* down and nothing was written); at is the collection that raised.
FlushRecords(order, st, recs) ==
    IF order = << >> THEN [store |-> st, records |-> recs, err |-> "none", at |-> "none"]
    ELSE LET coll == Head(order) IN
         IF recs[coll] = << >> THEN FlushRecords(Tail(order), st, recs)
         ELSE IF coll = down
              THEN [store |-> st, records |-> recs, err |-> "write", at |-> coll]
         ELSE LET r == InsertMany(coll, st[coll], recs[coll]) IN
              IF r.dup
              THEN [store |-> [st EXCEPT ![coll] = r.docs], records |-> recs,
                    err |-> "dup", at |-> coll]
              ELSE FlushRecords(Tail(order), [st EXCEPT ![coll] = r.docs],
                                [recs EXCEPT ![coll] = << >>])

\* The keys of a sequence, as a set.
Range(s) == { s[i] : i \in 1..Len(s) }

\* add_record: append to the buffer of the collection (creating its key on
\* first use) and flush that collection once it holds batch_size records.
AddRecord(st, recs, order, coll, doc) ==
    LET recs1 == [recs EXCEPT ![coll] = Append(@, doc)]
        order1 == IF coll \in Range(order) THEN order ELSE Append(order, coll)
    IN  IF Len(recs1[coll]) >= batch_size
        THEN LET f == FlushRecords(<< coll >>, st, recs1)
             IN  [store |-> f.store, records |-> f.records, order |-> order1]
        ELSE [store |-> st, records |-> recs1, order |-> order1]

(***************************************************************************)
(* Files.  A file is [uid, name, content]; a name is [stem, ext, dup],     *)
(* dup telling the ".duplicate" suffix; a container's content is           *)
(* [corrupt, rows]: corrupt when sqlite cannot read it, else its rows in   *)
(* the order they are fetched.                                             *)
(***************************************************************************)
Users == << "u1", "u2" >>

RawTimestamps == { 1690000000, 1690000060 }

Row(ts, code, payload) == [ts |-> ts, code |-> code, ncols |-> 5, payload |-> payload]

\* The rows containers are built from: well-formed rows of a location, a
\* steps and an unmapped type code, and a location row with a malformed
\* payload.
InputRows ==
    { Row(ts, 152, "ok") : ts \in RawTimestamps }
      \cup { Row(1690000000, 21, "ok"), Row(1690000000, 999, "ok"),
             Row(1690000000, 152, "malformed") }

\* The collections an outage is drawn from.
OutageChoices == { "none", IOS_LOCATION }

File(uid, stem, content) ==
    [uid |-> uid, name |-> [stem |-> stem, ext |-> "db", dup |-> FALSE],
     content |-> content]

\* What one upload slot can hold when it is given n rows: nothing or a
\* corrupt container (n = 0), or a readable container of n rows.
SlotFiles(uid, stem, n) ==
    IF n = 0
    THEN { {}, { File(uid, stem, [corrupt |-> TRUE, rows |-> << >>]) } }
    ELSE { { File(uid, stem, [corrupt |-> FALSE, rows |-> r]) } :
             r \in [1..n -> InputRows] }

\* upload_path.exists(): the user's upload directory is made by the first
\* save_file and never removed, so it exists once the user has a file in
\* either location.
DirExists(uid) == \E f \in upload \cup processed : f.uid = uid

\* upload_path.glob("*.db"): a ".duplicate" name does not end in ".db".
GlobDb(uid) == { f \in upload : f.uid = uid /\ f.name.ext = "db" /\ ~f.name.dup }

SameName(f, g) == f.uid = g.uid /\ f.name = g.name

\* save_file: the file goes to the user's upload directory under its own
\* name, or under name + ".duplicate" when that name is taken (whatever was
\* stored under the name written to is replaced).
SaveFile(up, f) ==
    LET taken == \E g \in up : SameName(g, f)
        stored == IF taken THEN [f EXCEPT !.name.dup = TRUE] ELSE f
    IN  { g \in up : ~SameName(g, stored) } \cup { stored }

RECURSIVE SaveAll(_, _)
SaveAll(up, files) ==
    IF files = {} THEN up
    ELSE LET f == CHOOSE x \in files : TRUE
         IN  SaveAll(SaveFile(up, f), files \ {f})

\* create_user: the document of a participant in the users collection (of
\* its credentials the study password is kept).
UserDoc(uid) == [uid |-> uid, study_pass |-> "pass"]

\* update_one(..., {'$set': {key: value}}) on one document.
SetField(doc, key, value) ==
    [k \in DOMAIN doc \cup {key} |-> IF k = key THEN value ELSE doc[k]]

\* str(device) + '_login_time'
LoginField(device) == device \o "_login_time"

\* The users collection after the participants were created: no one has
\* logged in.
InitialUsers == { UserDoc(u) : u \in Range(Users) }

\* The users collection once every participant has logged in on the phone
\* at time t.
LoggedInUsers(t) ==
    { SetField(UserDoc(u), LoginField("ios"), << << t, 0 >> >>) : u \in Range(Users) }

\* Nothing was pinged or saved through the API.
NoApiData == [pings |-> {}, json |-> {}]

\* Documents held by each collection.
Counts(st) == [c \in Collections |-> Cardinality(st[c])]

Step(op, emit) == [op |-> op, emit |-> emit]

Init ==
    /\ \E n1 \in 0..MaxRows, n2 \in 0..MaxRows, n3 \in 0..MaxRows :
         /\ n1 + n2 + n3 <= MaxRows
         /\ \E f1 \in SlotFiles("u1", "a", n1), f2 \in SlotFiles("u1", "b", n2),
               f3 \in SlotFiles("u2", "a", n3) :
              input = f1 \cup f2 \cup f3
    /\ upload = input
    /\ processed = {}
    /\ store = [c \in Collections |-> {}]
    /\ down \in OutageChoices
    /\ records = [c \in Collections |-> << >>]
    /\ recOrder = << >>
    /\ pc = "idle"
    /\ queue = << >>
    /\ todo = {}
    /\ cur = {}
    /\ idx = 1
    /\ phase = 1
    /\ baseline = Counts(store)
    /\ last = Step("init", "none")
    /\ summaries = {}
    /\ now = 0
    /\ users = InitialUsers
    /\ api = NoApiData

\* process_all_data: a new DataProcessor (empty buffers) and the user loop.
StartRun ==
    /\ pc = "idle"
    /\ records' = [c \in Collections |-> << >>]
    /\ recOrder' = << >>
    /\ queue' = Users
    /\ pc' = "user"
    /\ last' = Step("start", "none")
    /\ UNCHANGED << users, api, summaries, now, upload, processed, store, down, todo, cur, idx, input, phase, baseline >>

\* The user loop moves on: the next user, or the end of the run.
AfterUser == IF Tail(queue) = << >> THEN "done" ELSE "user"

\* process_phone_data, no upload directory: return False, nothing flushed.
PhoneDataNoDirectory ==
    /\ pc = "user"
    /\ ~DirExists(Head(queue))
    /\ queue' = Tail(queue)
    /\ pc' = AfterUser
    /\ last' = Step("nodir", "none")
    /\ UNCHANGED << users, api, summaries, now, upload, processed, store, down, records, recOrder, todo, cur, idx,
                    input, phase, baseline >>

\* process_phone_data up to the file loop of _process_sensor_data: the
\* containers are globbed once.
BeginPhoneData ==
    /\ pc = "user"
    /\ DirExists(Head(queue))
    /\ todo' = GlobDb(Head(queue))
    /\ pc' = "files"
    /\ last' = Step("glob", "none")
    /\ UNCHANGED << users, api, summaries, now, upload, processed, store, down, records, recOrder, queue, cur, idx,
                    input, phase, baseline >>

\* _process_ios_database, the container is read: its rows are fetched.  The
\* glob yields the files in no specified order.
OpenContainer ==
    /\ pc = "files"
    /\ \E f \in todo :
         /\ ~f.content.corrupt
         /\ cur' = {f}
         /\ todo' = todo \ {f}
         /\ idx' = 1
         /\ pc' = IF f.content.rows = << >> THEN "archive" ELSE "rows"
    /\ last' = Step("open", "none")
    /\ UNCHANGED << users, api, summaries, now, upload, processed, store, down, records, recOrder, queue,
                    input, phase, baseline >>

\* OpenContainerFails with the error leaving the file loop: the files that
\* were still to visit are dropped.
OpenContainerFailsAbortsLoop ==
    /\ pc = "files"
    /\ \E f \in todo : f.content.corrupt
    /\ todo' = {}
    /\ last' = Step("open_failed", "none")
    /\ UNCHANGED << users, api, summaries, now, upload, processed, store, down, records, recOrder, pc, queue, cur, idx,
                    input, phase, baseline >>

\* _process_ios_database, sqlite raises on the container: the except clause
\* logs the error, archive_file is not reached, and _process_sensor_data
\* goes on with the next file.
OpenContainerFails ==
    /\ pc = "files"
    /\ \E f \in todo :
         /\ f.content.corrupt
         /\ todo' = todo \ {f}
    /\ last' = Step("open_failed", "none")
    /\ UNCHANGED << users, api, summaries, now, upload, processed, store, down, records, recOrder, pc, queue, cur, idx,
                    input, phase, baseline >>

\* ClassifyRow with a row that yields no record ending the reading of the
\* container: the file is left where it is.
ClassifyRowAbortsOnDrop ==
    /\ pc = "rows"
    /\ LET f == CHOOSE x \in cur : TRUE
           row == f.content.rows[idx]
           out == ProcessRow(f.uid, row)
       IN  IF out = {}
           THEN /\ UNCHANGED << store, records, recOrder, idx >>
                /\ last' = Step("row", "none")
                /\ cur' = {}
                /\ pc' = "files"
           ELSE LET rec == CHOOSE x \in out : TRUE
                    r == AddRecord(store, records, recOrder, rec[1], rec[2])
                IN  /\ store' = r.store
                    /\ records' = r.records
                    /\ recOrder' = r.order
                    /\ last' = Step("row", rec[1])
                    /\ idx' = idx + 1
                    /\ pc' = IF idx = Len(f.content.rows) THEN "archive" ELSE "rows"
                    /\ cur' = cur
    /\ UNCHANGED << users, api, summaries, now, upload, processed, down, queue, todo, input, phase, baseline >>

\* One turn of the row loop: the row is classified and its record, if one
\* is built, goes through add_record.
ClassifyRow ==
    /\ pc = "rows"
    /\ LET f == CHOOSE x \in cur : TRUE
           row == f.content.rows[idx]
           out == ProcessRow(f.uid, row)
       IN  /\ IF out = {}
              THEN /\ UNCHANGED << users, api, summaries, now, store, records, recOrder >>
                   /\ last' = Step("row", "none")
              ELSE LET rec == CHOOSE x \in out : TRUE
                       r == AddRecord(store, records, recOrder, rec[1], rec[2])
                   IN  /\ store' = r.store
                       /\ records' = r.records
                       /\ recOrder' = r.order
                       /\ last' = Step("row", rec[1])
           /\ idx' = idx + 1
           /\ pc' = IF idx = Len(f.content.rows) THEN "archive" ELSE "rows"
    /\ UNCHANGED << users, api, summaries, now, upload, processed, down, queue, todo, cur, input, phase, baseline >>

\* archive_file, at the end of _process_ios_database: shutil.move to the
\* processed directory of the user under the same file name (a file of that
\* name there is replaced).
ArchiveFile ==
    /\ pc = "archive"
    /\ LET f == CHOOSE x \in cur : TRUE
       IN  /\ upload' = upload \ {f}
           /\ processed' = { g \in processed : ~SameName(g, f) } \cup {f}
    /\ cur' = {}
    /\ pc' = "files"
    /\ last' = Step("archive", "none")
    /\ UNCHANGED << users, api, summaries, now, store, down, records, recOrder, queue, todo, idx, input, phase, baseline >>

\* The end of process_phone_data, once the file loop of _process_sensor_data
\* is over: flush_records() over every buffer, then the user loop goes on.
FlushAll ==
    /\ pc = "files"
    /\ todo = {}
    /\ LET f == FlushRecords(recOrder, store, records)
       IN  /\ store' = f.store
           /\ records' = f.records
    /\ queue' = Tail(queue)
    /\ pc' = AfterUser
    /\ last' = Step("flush", "none")
    /\ UNCHANGED << users, api, summaries, now, upload, processed, down, recOrder, todo, cur, idx, input, phase, baseline >>

\* After a completed run the same containers are uploaded again, each
\* through save_file.
UploadAgain ==
    /\ pc = "done"
    /\ phase = 1
    /\ upload' = SaveAll(upload, input)
    /\ baseline' = Counts(store)
    /\ phase' = 2
    /\ pc' = "idle"
    /\ last' = Step("upload", "none")
    /\ UNCHANGED << users, api, summaries, now, processed, store, down, records, recOrder, queue, todo, cur, idx, input >>

Next ==
    \/ StartRun
    \/ PhoneDataNoDirectory
    \/ BeginPhoneData
    \/ OpenContainer
    \/ OpenContainerFails
    \/ ClassifyRow
    \/ ArchiveFile
    \/ FlushAll
    \/ UploadAgain

Spec == Init /\ [][Next]_vars

(***************************************************************************)
(* Properties.                                                             *)
(***************************************************************************)
\* The records the classification builds from the rows of a container.
RecordsOf(f) ==
    UNION { ProcessRow(f.uid, f.content.rows[i]) : i \in 1..Len(f.content.rows) }

\* The store holds a document with the unique index value of doc.
Stored(st, coll, doc) ==
    \E e \in st[coll] : IndexKey(coll, e) = IndexKey(coll, doc)

\* A first, complete run over the uploaded containers, the store answering.
FirstRunDone == pc = "done" /\ phase = 1 /\ down = "none"

\* The end of process_phone_data is about to call flush_records().
AtFlushAll == pc = "files" /\ todo = {}

\* C1: archive-after-commit.  With the store answering, at every point of a
\* run a container is in the processed location only if every record
\* classified from it is in the store, and every buffered record that is not
\* in the store belongs to a container still in the upload location.
C1_ArchiveAfterCommit ==
    down = "none" =>
      /\ \A f \in processed : \A rec \in RecordsOf(f) : Stored(store, rec[1], rec[2])
      /\ \A c \in Collections : \A i \in 1..Len(records[c]) :
           ~Stored(store, c, records[c][i]) =>
             \E f \in upload : << c, records[c][i] >> \in RecordsOf(f)

\* C2: idempotent re-ingestion.  When the containers of a completed first
\* ingestion are presented again and ingested again, every collection holds
\* as many documents as after the first ingestion.
C2_IdempotentReingestion ==
    (pc = "done" /\ phase = 2 /\ down = "none") => Counts(store) = baseline

\* C3: a uniqueness violation met by flush_records() is absorbed.  The call
\* leaves every buffer empty and every record that was buffered in the store,
\* as if no violation had occurred.
C3_DuplicatesAbsorbed ==
    [][ (AtFlushAll /\ down = "none"
           /\ FlushRecords(recOrder, store, records).err = "dup")
        => \A c \in Collections :
             /\ records'[c] = << >>
             /\ \A i \in 1..Len(records[c]) : Stored(store', c, records[c][i]) ]_vars

\* C4: when the bulk write of one collection fails during flush_records(),
\* the failure does not leave the call (the user loop goes on) and the
\* records buffered for every other collection are written by that call.
C4_WriteFailureIsolated ==
    [][ (AtFlushAll /\ FlushRecords(recOrder, store, records).err = "write")
        => /\ pc' = AfterUser
           /\ \A c \in Collections \ {down} :
                \A i \in 1..Len(records[c]) : Stored(store', c, records[c][i]) ]_vars

\* C5: batch queue threshold.  After every add_record call a buffer holds
\* fewer than batch_size records.
C5_BufferBelowThreshold ==
    down = "none" => \A c \in Collections : Len(records[c]) < batch_size

\* C6: every row that is read is classified into exactly one record,
\* appended to exactly one buffer.
C6_OneRecordPerRow ==
    last.op = "row" => last.emit \in Collections

\* A row of a mapped type code whose payload cannot be decoded.
Malformed(row) ==
    row.ncols >= 5 /\ HandlerOf(row.code) # "unknown" /\ row.payload # "ok"

\* A row a handler can decode (an unmapped row is kept as it is).
WellFormed(row) ==
    row.ncols >= 5 /\ (HandlerOf(row.code) = "unknown" \/ row.payload = "ok")

\* C7: after a run, the unknown-events collection holds a document for every
\* malformed row of a mapped type code of the containers that were read.
C7_MalformedToUnknown ==
    FirstRunDone =>
      \A f \in processed : \A i \in 1..Len(f.content.rows) :
        Malformed(f.content.rows[i]) =>
          \E e \in store[UNKNOWN_EVENTS] :
            /\ e.uid = f.uid
            /\ e.timestamp = HandleTimestampFormat(f.content.rows[i].ts)

\* C8: after a run, the unknown-events collection holds a document for every
\* row of an unmapped type code of the containers that were read, with the
\* row's type code as event_id.
C8_UnmappedPersisted ==
    FirstRunDone =>
      \A f \in processed : \A i \in 1..Len(f.content.rows) :
        LET row == f.content.rows[i] IN
        (row.ncols >= 5 /\ HandlerOf(row.code) = "unknown") =>
          [uid |-> f.uid, timestamp |-> HandleTimestampFormat(row.ts),
           event_id |-> row.code] \in store[UNKNOWN_EVENTS]

\* C9: end-to-end dispatch.  After a run every readable container is in the
\* processed location and no longer in the upload location, and every
\* well-formed row of it has a document in the collection its type code
\* maps to.
C9_EndToEndDispatch ==
    FirstRunDone =>
      \A f \in input : ~f.content.corrupt =>
        /\ f \in processed
        /\ f \notin upload
        /\ \A i \in 1..Len(f.content.rows) :
             LET row == f.content.rows[i] IN
             WellFormed(row) =>
               \E e \in store[HandlerCollection(HandlerOf(row.code))] :
                 /\ e.uid = f.uid
                 /\ e.timestamp = HandleTimestampFormat(row.ts)

\* C10: per-file isolation.  When a run has ended, every container that
\* cannot be read is still in the upload location and not in the processed
\* location, and every other container, of the same user and of the other
\* users, has been read and is in the processed location.
C10_PerFileIsolation ==
    pc = "done" =>
      \A f \in input :
        IF f.content.corrupt
        THEN f \in upload /\ ~\E g \in processed : SameName(g, f)
        ELSE f \in processed /\ f \notin upload

\* C10 witness: a run has ended with an unreadable container left in the
\* upload location while a container of the same user and a container of
\* another user were archived.
C10_Witness ==
    /\ pc = "done"
    /\ \E f \in upload :
         /\ f.content.corrupt
         /\ \E g \in processed : g.uid = f.uid
         /\ \E h \in processed : h.uid # f.uid

\* The rows of a container that left no document: no record was built from
\* them, or the record that was built is not in the store.
DroppedRows(f) ==
    { i \in 1..Len(f.content.rows) :
        \A rec \in ProcessRow(f.uid, f.content.rows[i]) : ~Stored(store, rec[1], rec[2]) }

\* C27: a container that was opened is archived whatever its rows yield.
\* Every turn of the row loop stays with the container and ends in the next
\* row or in archive_file; archive_file takes the container out of the
\* upload location and puts it into the processed location; only containers
\* of the upload location are opened, so the rows of an archived container
\* are not read again; and when the first run has ended every readable
\* container is archived.
C27_ArchivedWhateverRows ==
    [][ /\ pc = "rows" => (cur' = cur /\ pc' \in { "rows", "archive" })
        /\ pc = "archive" => (cur \cap upload' = {} /\ cur \subseteq processed')
        /\ last'.op = "open" => cur' \subseteq upload
        /\ (pc' = "done" /\ phase = 1)
             => \A f \in input : ~f.content.corrupt => (f \in processed' /\ f \notin upload') ]_vars

\* C27 witness: the first run has ended and a container is archived, and
\* gone from the upload location, although a row of it built no record and
\* left nothing in the store.
C27_Witness ==
    /\ pc = "done"
    /\ phase = 1
    /\ \E f \in processed \ upload :
         \E i \in DroppedRows(f) : ProcessRow(f.uid, f.content.rows[i]) = {}

(***************************************************************************)
(* Garmin FIT files.  process_garmin_data runs the FIT-to-CSV decoder on    *)
(* every *.fit file of a user, loads the CSV files the decoder wrote and   *)
(* archives the file.  A FIT file is [uid, name, content] with content     *)
(* [exit, csvdir, csv, at]: the decoder's return code on the file, whether *)
(* the <stem>_csv_out directory is there afterwards, what stands for each  *)
(* metric in that directory ("absent": no CSV file, "unreadable": read_csv *)
(* raises on it, "rows": a CSV of one sample) and the timestamp of the     *)
(* samples.  Of the six metrics the decoder writes, the two the daily      *)
(* summaries read are modelled.                                            *)
(***************************************************************************)
GarminMetrics == { "HEART_RATE", "STRESS" }

CsvStates == { "absent", "unreadable", "rows" }

\* The collections an outage is drawn from in a Garmin run.
GarminOutageChoices == { "none", GARMIN_HR, GARMIN_STRESS }

FitFile(uid, stem, content) ==
    [uid |-> uid, name |-> [stem |-> stem, ext |-> "fit", dup |-> FALSE],
     content |-> content]

\* What the upload slot of a FIT file can hold.
FitSlotFiles(uid, stem) ==
    { {} } \cup
    { { FitFile(uid, stem, [exit |-> e, csvdir |-> d, csv |-> c, at |-> t]) } :
        e \in {0, 1}, d \in BOOLEAN, c \in [GarminMetrics -> CsvStates],
        t \in RawTimestamps }

\* upload_path.glob("*.fit")
GlobFit(uid) == { f \in upload : f.uid = uid /\ f.name.ext = "fit" /\ ~f.name.dup }

\* pd.read_csv on the CSV of metric m, as itertuples yields it.
CsvRows(f, m) ==
    IF f.content.csv[m] = "rows"
    THEN << [timestamp |-> << f.content.at, 0 >>, value |-> 70] >>
    ELSE << >>

\* _handle_garmin_hr and _handle_garmin_stress: the record of one CSV row
\* (the stress score is stored under heart_rate as well).
HandleGarmin(user, m, row) ==
    IF m = "HEART_RATE"
    THEN << GARMIN_HR, [uid |-> user, event_id |-> 442,
                        timestamp |-> row.timestamp, heart_rate |-> row.value] >>
    ELSE << GARMIN_STRESS, [uid |-> user, event_id |-> 443,
                            timestamp |-> row.timestamp, heart_rate |-> row.value] >>

\* The collection the records of a metric go to.
MetricCollection(m) == IF m = "HEART_RATE" THEN GARMIN_HR ELSE GARMIN_STRESS

\* The records _process_garmin_csv_files builds from the CSV of metric m, in
\* row order: a CSV that is absent or cannot be read contributes nothing (a
\* read error is logged and the loop over the CSV files goes on).
GarminBatch(f, m) ==
    [i \in 1..Len(CsvRows(f, m)) |-> HandleGarmin(f.uid, m, CsvRows(f, m)[i])[2]]

\* The insert loop of _process_garmin_csv_files: one insert_many per
\* collection, each in its own try block, so a failing collection is logged
\* and the others are still written.
InsertGarmin(st, f) ==
    [c \in Collections |->
       IF c = down THEN st[c]
       ELSE IF \E m \in GarminMetrics : MetricCollection(m) = c
            THEN LET m == CHOOSE x \in GarminMetrics : MetricCollection(x) = c
                 IN  InsertMany(c, st[c], GarminBatch(f, m)).docs
            ELSE st[c]]

GarminInit ==
    /\ \E f1 \in FitSlotFiles("u1", "a"), f2 \in FitSlotFiles("u1", "b") :
         input = f1 \cup f2
    /\ upload = input
    /\ processed = {}
    /\ store = [c \in Collections |-> {}]
    /\ down \in GarminOutageChoices
    /\ records = [c \in Collections |-> << >>]
    /\ recOrder = << >>
    /\ pc = "idle"
    /\ queue = << >>
    /\ todo = {}
    /\ cur = {}
    /\ idx = 1
    /\ phase = 1
    /\ baseline = Counts(store)
    /\ last = Step("init", "none")
    /\ summaries = {}
    /\ now = 0
    /\ users = InitialUsers
    /\ api = NoApiData

\* process_all_data, the user loop (no container of raw rows is uploaded, so
\* process_phone_data reads and writes nothing).
GarminStartRun ==
    /\ pc = "idle"
    /\ queue' = Users
    /\ pc' = "user"
    /\ last' = Step("start", "none")
    /\ UNCHANGED << users, api, summaries, now, upload, processed, store, down, records, recOrder, todo, cur, idx,
                    input, phase, baseline >>

\* process_garmin_data, no upload directory: return False.
GarminNoDirectory ==
    /\ pc = "user"
    /\ ~DirExists(Head(queue))
    /\ queue' = Tail(queue)
    /\ pc' = AfterUser
    /\ last' = Step("nodir", "none")
    /\ UNCHANGED << users, api, summaries, now, upload, processed, store, down, records, recOrder, todo, cur, idx,
                    input, phase, baseline >>

\* process_garmin_data up to its file loop: the FIT files are globbed once.
BeginGarminData ==
    /\ pc = "user"
    /\ DirExists(Head(queue))
    /\ todo' = GlobFit(Head(queue))
    /\ pc' = "files"
    /\ last' = Step("glob", "none")
    /\ UNCHANGED << users, api, summaries, now, upload, processed, store, down, records, recOrder, queue, cur, idx,
                    input, phase, baseline >>

\* process_garmin_fit_file, the decoder returns a non-zero code: False, the
\* file is not archived and the loop goes on.
DecoderFails ==
    /\ pc = "files"
    /\ \E f \in todo :
         /\ f.content.exit # 0
         /\ todo' = todo \ {f}
    /\ last' = Step("decode_failed", "none")
    /\ UNCHANGED << users, api, summaries, now, upload, processed, store, down, records, recOrder, pc, queue, cur, idx,
                    input, phase, baseline >>

\* _process_garmin_csv_files, the output directory of the decoder is not
\* there: False, the file is not archived.
CsvDirectoryMissing ==
    /\ pc = "files"
    /\ \E f \in todo :
         /\ f.content.exit = 0
         /\ ~f.content.csvdir
         /\ todo' = todo \ {f}
    /\ last' = Step("no_csv_dir", "none")
    /\ UNCHANGED << users, api, summaries, now, upload, processed, store, down, records, recOrder, pc, queue, cur, idx,
                    input, phase, baseline >>

\* _process_garmin_csv_files on a decoded file: the CSV files are read, the
\* records are inserted collection by collection, the output directory is
\* removed and True is returned, whatever was logged on the way.
LoadGarminCsv ==
    /\ pc = "files"
    /\ \E f \in todo :
         /\ f.content.exit = 0
         /\ f.content.csvdir
         /\ store' = InsertGarmin(store, f)
         /\ cur' = {f}
         /\ todo' = todo \ {f}
    /\ pc' = "archive"
    /\ last' = Step("load", "none")
    /\ UNCHANGED << users, api, summaries, now, upload, processed, down, records, recOrder, queue, idx,
                    input, phase, baseline >>

\* process_garmin_data: archive_file on the file that was loaded.
ArchiveFit ==
    /\ pc = "archive"
    /\ LET f == CHOOSE x \in cur : TRUE
       IN  /\ upload' = upload \ {f}
           /\ processed' = { g \in processed : ~SameName(g, f) } \cup {f}
    /\ cur' = {}
    /\ pc' = "files"
    /\ last' = Step("archive", "none")
    /\ UNCHANGED << users, api, summaries, now, store, down, records, recOrder, queue, todo, idx, input, phase, baseline >>

\* The file loop of process_garmin_data is over: the user loop goes on.
EndGarminData ==
    /\ pc = "files"
    /\ todo = {}
    /\ queue' = Tail(queue)
    /\ pc' = AfterUser
    /\ last' = Step("garmin_done", "none")
    /\ UNCHANGED << users, api, summaries, now, upload, processed, store, down, records, recOrder, todo, cur, idx,
                    input, phase, baseline >>

GarminNext ==
    \/ GarminStartRun
    \/ GarminNoDirectory
    \/ BeginGarminData
    \/ DecoderFails
    \/ CsvDirectoryMissing
    \/ LoadGarminCsv
    \/ ArchiveFit
    \/ EndGarminData

SpecGarmin == GarminInit /\ [][GarminNext]_vars

\* The decoder's outcome on f is one process_garmin_fit_file rejects.
HardFailure(f) == f.content.exit # 0 \/ ~f.content.csvdir

\* The metrics of f the decoder wrote a CSV for.
ExpectedMetrics(f) == { m \in GarminMetrics : f.content.csv[m] # "absent" }

\* The metrics of f whose samples are all in the store.
CommittedMetrics(f) ==
    { m \in ExpectedMetrics(f) :
        /\ f.content.csv[m] = "rows"
        /\ \A i \in 1..Len(GarminBatch(f, m)) :
             Stored(store, MetricCollection(m), GarminBatch(f, m)[i]) }

\* C11: a hard failure of the decoder is final for the file.  A FIT file on
\* which the decoder returns a non-zero code or leaves no output directory
\* is never in the processed location and every stored document comes from
\* a file without such a failure; and a file in the processed location has
\* either all of the metrics the decoder wrote for it in the store or none.
C11_DecoderHardFailure ==
    /\ \A f \in input : HardFailure(f) => ~\E g \in processed : SameName(g, f)
    /\ \A c \in Collections : \A e \in store[c] :
         \E f \in input : ~HardFailure(f) /\
           \E m \in GarminMetrics : \E i \in 1..Len(GarminBatch(f, m)) :
             MetricCollection(m) = c /\ GarminBatch(f, m)[i] = e
    /\ \A f \in processed :
         CommittedMetrics(f) = {} \/ CommittedMetrics(f) = ExpectedMetrics(f)

(***************************************************************************)
(* Same-named files.  Uploads (save_file) and archive moves (archive_file) *)
(* in any order, every uploaded file with a content of its own: content is *)
(* the number of the upload, and input collects the contents stored so     *)
(* far.                                                                    *)
(***************************************************************************)
\* Uploads in one behaviour.
MaxUploads == 4

FileStems == { "a", "b" }

FilesInit ==
    /\ upload = {}
    /\ processed = {}
    /\ input = {}
    /\ idx = 1
    /\ pc = "files"
    /\ cur = {}
    /\ store = [c \in Collections |-> {}]
    /\ down = "none"
    /\ records = [c \in Collections |-> << >>]
    /\ recOrder = << >>
    /\ queue = << >>
    /\ todo = {}
    /\ phase = 1
    /\ baseline = Counts(store)
    /\ last = Step("init", "none")
    /\ summaries = {}
    /\ now = 0
    /\ users = InitialUsers
    /\ api = NoApiData

\* UploadFile.post: a file named <stem>.db arrives for a user and goes
\* through save_file.
UploadOne ==
    /\ pc = "files"
    /\ idx <= MaxUploads
    /\ \E u \in Range(Users), s \in FileStems :
         upload' = SaveFile(upload, File(u, s, idx))
    /\ input' = input \cup {idx}
    /\ idx' = idx + 1
    /\ last' = Step("upload", "none")
    /\ UNCHANGED << users, api, summaries, now, processed, store, down, records, recOrder, pc, queue, todo, cur,
                    phase, baseline >>

\* A run has read a globbed file of the upload location and is about to
\* call archive_file on it.
ReadForArchive ==
    /\ pc = "files"
    /\ \E u \in Range(Users) : \E f \in GlobDb(u) : cur' = {f}
    /\ pc' = "archive"
    /\ last' = Step("open", "none")
    /\ UNCHANGED << users, api, summaries, now, upload, processed, store, down, records, recOrder, queue, todo, idx,
                    input, phase, baseline >>

FilesNext ==
    \/ UploadOne
    \/ ReadForArchive
    \/ ArchiveFile

SpecFiles == FilesInit /\ [][FilesNext]_vars

\* C12: no silent overwrite.  After any sequence of uploads and archive
\* moves, the content of every file that was stored is still held by a file
\* of the upload or of the processed location.
C12_NoSilentOverwrite ==
    \A c \in input : \E f \in upload \cup processed : f.content = c

(***************************************************************************)
(* Daily summaries.  A summary is computed for a user and a window         *)
(* [start_timestamp, end_timestamp) of whole seconds from the location     *)
(* fixes and the Garmin samples of the store.  Durations are hours, kept   *)
(* as exact fractions << numerator, denominator >>; coordinates are        *)
(* thousandths of a degree; distances are metres.                          *)
(***************************************************************************)
\* datetime.combine(target_date, datetime.min.time()).timestamp() of the
\* d-th day counted from 2023-07-22 (days of 86400 seconds).
Midnight(d) == 1689984000 + 86400 * d

\* int(datetime.combine(target_date, datetime.max.time()).timestamp()): the
\* whole seconds of 23:59:59.999999.
EndOfDay(d) == Midnight(d) + 86399

\* float comparison and difference of timestamps << seconds, milliseconds >>.
TsLess(a, b) == a[1] < b[1] \/ (a[1] = b[1] /\ a[2] < b[2])

\* a - b <= bound seconds
DiffAtMost(a, b, bound) ==
    a[1] - b[1] < bound - 1
      \/ (a[1] - b[1] <= bound /\ (a[1] - b[1]) * 1000 + a[2] - b[2] <= bound * 1000)

\* a - b < bound seconds
DiffBelow(a, b, bound) ==
    a[1] - b[1] < bound - 1
      \/ (a[1] - b[1] <= bound /\ (a[1] - b[1]) * 1000 + a[2] - b[2] < bound * 1000)

\* a - b in milliseconds (for differences that were found below a bound)
DiffMs(a, b) == (a[1] - b[1]) * 1000 + a[2] - b[2]

\* {'uid': uid, 'timestamp': {'$gte': start, '$lt': end}} with start and end
\* whole seconds.
InWindow(doc, uid, start, end) ==
    doc.uid = uid /\ doc.timestamp[1] >= start /\ doc.timestamp[1] < end

\* dict.get(key, default)
Get(doc, key, default) == IF key \in DOMAIN doc THEN doc[key] ELSE default

RECURSIVE SortByTimestamp(_)
\* .sort('timestamp', 1) of a set of documents with distinct timestamps
SortByTimestamp(docs) ==
    IF docs = {} THEN << >>
    ELSE LET first == CHOOSE d \in docs :
                        \A e \in docs \ {d} : TsLess(d.timestamp, e.timestamp)
         IN  << first >> \o SortByTimestamp(docs \ {first})

Abs(x) == IF x < 0 THEN -x ELSE x

\* geopy distance.distance(p, q).meters for points << latitude, longitude >>:
\* a latitude outside [-90, 90] raises ValueError.  The length is taken on
\* a grid of 111 m per thousandth of a degree, which is the geodesic length
\* for the points of one meridian the model draws near each other.
GeoDistance(p, q) ==
    IF Abs(p[1]) > 90000 \/ Abs(q[1]) > 90000
    THEN [raises |-> TRUE, meters |-> 0]
    ELSE [raises |-> FALSE, meters |-> 111 * (Abs(p[1] - q[1]) + Abs(p[2] - q[2]))]

\* The point _calculate_distance_traveled reads from a record.
PointOf(rec) == << Get(rec, "latitude", 0), Get(rec, "longitude", 0) >>

RECURSIVE SumSegments(_, _)
\* The loop of _calculate_distance_traveled from index i on: a segment on
\* which geopy raises is skipped.
SumSegments(recs, i) ==
    IF i > Len(recs) THEN 0
    ELSE LET d == GeoDistance(PointOf(recs[i - 1]), PointOf(recs[i]))
         IN  (IF d.raises THEN 0 ELSE d.meters) + SumSegments(recs, i + 1)

CalculateDistanceTraveled(recs) ==
    IF Len(recs) < 2 THEN 0 ELSE SumSegments(recs, 2)

RECURSIVE GpsMillis(_, _, _)
\* The duration loop of _get_location_info from index i on, previous_time
\* being prev: the milliseconds added to gps_minutes.
GpsMillis(recs, i, prev) ==
    IF i > Len(recs) THEN 0
    ELSE LET t == recs[i].timestamp
         IN  (IF DiffBelow(t, prev, 15 * 60) THEN DiffMs(t, prev) ELSE 0)
               + GpsMillis(recs, i + 1, t)

\* The GPS records _get_location_info finds, in timestamp order.
GpsRecords(st, uid, start, end) ==
    SortByTimestamp({ d \in st[IOS_LOCATION] :
                        InWindow(d, uid, start, end) /\ d.event_id = 152 })

\* _get_location_info: (distance_traveled, duration_hours)
GetLocationInfo(st, uid, start, end) ==
    LET recs == GpsRecords(st, uid, start, end)
    IN  IF recs = << >>
        THEN [distance_traveled |-> 0, duration_hours |-> << 0, 1 >>]
        ELSE [distance_traveled |-> CalculateDistanceTraveled(recs),
              duration_hours |-> << GpsMillis(recs, 1, << 0, 0 >>), 60 * 60 * 1000 >>]

\* GetGarminInfo counting every heart-rate record of the window, whatever
\* its value.
GetGarminInfoAnyValue(st, uid, start, end) ==
    LET hr == { d \in st[GARMIN_HR] : InWindow(d, uid, start, end) }
        stress == { d \in st[GARMIN_STRESS] : InWindow(d, uid, start, end) }
    IN  [garmin_wear_duration |-> << Cardinality(hr), 6 * 60 >>,
         garmin_on_duration |-> << Cardinality(stress), 6 * 60 >>]

\* _get_garmin_info: (garmin_wear_duration, garmin_on_duration)
GetGarminInfo(st, uid, start, end) ==
    LET hr == { d \in st[GARMIN_HR] :
                  InWindow(d, uid, start, end) /\ Get(d, "heart_rate", 0) > 0 }
        stress == { d \in st[GARMIN_STRESS] : InWindow(d, uid, start, end) }
    IN  [garmin_wear_duration |-> << Cardinality(hr), 6 * 60 >>,
         garmin_on_duration |-> << Cardinality(stress), 6 * 60 >>]

\* _get_ema_info: the collections 'ema_data' and 'ema_schedule' it reads
\* are written by no code of the repository, so both finds are empty.
GetEmaInfo(uid, start, end) ==
    [responses |-> << >>, scheduled |-> << >>, response_count |-> 0, scheduled_count |-> 0]

\* UserDailySummary with the two Garmin durations taken for one another.
UserDailySummarySwapped(st, uid, start, end, day, at) ==
    LET loc == GetLocationInfo(st, uid, start, end)
        garmin == GetGarminInfo(st, uid, start, end)
    IN  [uid |-> uid, date |-> start, date_str |-> day,
         location |-> loc,
         garmin_wear_duration |-> garmin.garmin_on_duration,
         garmin_on_duration |-> garmin.garmin_wear_duration,
         ema |-> GetEmaInfo(uid, start, end),
         generated_at |-> at]

\* The summary document _generate_user_daily_summary builds (date_str is the
\* day the window belongs to).
UserDailySummary(st, uid, start, end, day, at) ==
    LET loc == GetLocationInfo(st, uid, start, end)
        garmin == GetGarminInfo(st, uid, start, end)
    IN  [uid |-> uid, date |-> start, date_str |-> day,
         location |-> loc,
         garmin_wear_duration |-> garmin.garmin_wear_duration,
         garmin_on_duration |-> garmin.garmin_on_duration,
         ema |-> GetEmaInfo(uid, start, end),
         generated_at |-> at]

\* update_one({'uid', 'date'}, {'$set': summary}, upsert=True): the fields
\* of summary are set on the matching document, which keeps its other
\* fields; without a match the summary is inserted.
UpsertSummary(sums, summary) ==
    LET match == { d \in sums : d.uid = summary.uid /\ d.date = summary.date }
    IN  IF match = {} THEN sums \cup {summary}
        ELSE LET old == CHOOSE d \in match : TRUE
                 new == [k \in DOMAIN old \cup DOMAIN summary |->
                           IF k \in DOMAIN summary THEN summary[k] ELSE old[k]]
             IN  (sums \ {old}) \cup {new}

RECURSIVE GCD(_, _)
GCD(m, n) == IF n = 0 THEN m ELSE GCD(n, m % n)

\* A fraction in lowest terms.
Reduced(a) == << a[1] \div GCD(a[1], a[2]), a[2] \div GCD(a[1], a[2]) >>

\* Two durations are the same number of hours.
SameHours(a, b) == Reduced(a) = Reduced(b)

\* The day a time belongs to: datetime.now().date(), as an offset in days
\* from the day of Midnight(0).
DateOf(t) == (t - Midnight(0)) \div 86400

\* One call of _generate_user_daily_summary, as a record of its arguments
\* and of the summary it built.
SummaryCall(st, uid, start, end, day, at) ==
    [uid |-> uid, start |-> start, end |-> end,
     summary |-> UserDailySummary(st, uid, start, end, day, at)]

\* users.find(...) raises: the users collection is down and the call was
\* given no force_user (with force_user the collection is not read).
SelectionFails(force) == force = {} /\ down = USERS

\* The users generate_daily_summaries selects when every document of the
\* users collection counts, logged in or not.
SelectedUsersAnyLogin(us, force) ==
    IF force = {} THEN { d.uid : d \in us } ELSE force

\* The users generate_daily_summaries selects: force_user alone, or the
\* users whose document has an ios_login_time or a garmin_login_time field.
SelectedUsers(us, force) ==
    IF force = {}
    THEN { d.uid : d \in { x \in us : \/ "ios_login_time" \in DOMAIN x
                                       \/ "garmin_login_time" \in DOMAIN x } }
    ELSE force

\* The calls of _generate_user_daily_summary one generate_daily_summaries
\* makes at time t: date = {} is the call without a date (today, midnight to
\* now), date = {d} the call for day d (midnight to 23:59:59).
DailyCalls(st, us, date, force, t) ==
    LET day == IF date = {} THEN DateOf(t) ELSE CHOOSE d \in date : TRUE
        start == Midnight(day)
        end == IF date = {} THEN t ELSE EndOfDay(day)
    IN  IF SelectionFails(force) THEN {}
        ELSE { SummaryCall(st, u, start, end, day, t) : u \in SelectedUsers(us, force) }

\* What generate_daily_summaries returns: False when an exception reaches
\* its own except clause, True otherwise.  _generate_user_daily_summary
\* catches what its body raises, so only the users query can do that.
DailyResult(force) == ~SelectionFails(force)

RECURSIVE UpsertAll(_, _)
\* The update_one of every call of a set of calls with distinct keys.
UpsertAll(sums, calls) ==
    IF calls = {} THEN sums
    ELSE LET c == CHOOSE x \in calls : TRUE
         IN  UpsertAll(UpsertSummary(sums, c.summary), calls \ {c})

\* The calls of _generate_user_daily_summary whose update_one went through:
\* none when the daily_summaries collection is down (the error is caught
\* and logged inside the call).
Written(calls) == IF down = DAILY_SUMMARY THEN {} ELSE calls

\* What generate_summaries_for_period returns: the conjunction of what its
\* range(days_back) calls of generate_daily_summaries returned.
PeriodResult(days_back, force) == days_back < 1 \/ DailyResult(force)

RECURSIVE PeriodCalls(_, _, _, _, _, _)
\* The loop of generate_summaries_for_period from i on: range(days_back),
\* i = 0 being today and i > 0 the day i days ago.
PeriodCalls(st, us, days_back, force, t, i) ==
    IF i >= days_back THEN {}
    ELSE DailyCalls(st, us, IF i = 0 THEN {} ELSE { DateOf(t) - i }, force, t)
           \cup PeriodCalls(st, us, days_back, force, t, i + 1)

\* The ema_id values of a sequence of documents, in order.
EmaIds(docs) == [i \in 1..Len(docs) |-> docs[i].ema_id]

\* DataProcessorBase._get_ema_info: the status events and the responses of
\* the window in timestamp order; scheduled is list(set(...)) of the ids of
\* the scheduled events, completed the id of every completed event in
\* order, and a completed event whose id a response carries gets the score
\* _extract_depression_score reads from that response (the default '0': an
\* ingested response has no depression_score field).
BaseGetEmaInfo(st, uid, start, end) ==
    LET ema_records ==
            SortByTimestamp({ x \in st[EMA_STATUS_EVENTS] : InWindow(x, uid, start, end) })
        ema_responses == { x \in st[EMA_RESPONSE] : InWindow(x, uid, start, end) }
        IsScheduled(x) == x.status = "scheduled"
        IsCompleted(x) == x.status = "completed"
        completed == EmaIds(SelectSeq(ema_records, IsCompleted))
    IN  [scheduled_emas |-> Range(EmaIds(SelectSeq(ema_records, IsScheduled))),
         completed_emas |-> completed,
         depression_scores |->
           [id \in { e \in Range(completed) :
                       \E r \in ema_responses : Get(r, "ema_id", "") = e } |-> "0"]]

\* DataProcessorBase.generate_daily_summary for the day d: the window is
\* [midnight, midnight + 1 day), every GPS point counts 10 minutes, every
\* heart-rate and stress record counts 1/360 hour.  Of its fields the
\* distance and the app-usage fields are left out.
BaseDailySummary(st, uid, d) ==
    LET start == Midnight(d)
        end == Midnight(d + 1)
        gps == { x \in st[IOS_LOCATION] : InWindow(x, uid, start, end) /\ x.event_id = 152 }
        hr == { x \in st[GARMIN_HR] : InWindow(x, uid, start, end) }
        stress == { x \in st[GARMIN_STRESS] : InWindow(x, uid, start, end) }
        ema == BaseGetEmaInfo(st, uid, start, end)
    IN  [uid |-> uid, date |-> start, date_obj |-> d,
         location_duration |-> << Cardinality(gps) * 10, 60 >>,
         empatica_duration |-> << Cardinality(hr), 6 * 60 >>,
         stress_duration |-> << Cardinality(stress), 6 * 60 >>,
         scheduled_emas |-> ema.scheduled_emas,
         completed_emas |-> ema.completed_emas,
         depression_scores |-> ema.depression_scores]

\* Documents the store can be given between two aggregations.
MaxSamples == 2

\* The days_back a scheduled run is given goes up to this.
MaxDaysBack == 2

\* Aggregation calls in one behaviour.
MaxAggregations == 2

SampleTimes == { << EndOfDay(-1), 500 >>, << Midnight(0) + 60, 0 >> }

SampleDocs ==
    { [uid |-> u, timestamp |-> t, event_id |-> 152, latitude |-> 45000, longitude |-> 10000] :
        u \in {"u1"}, t \in SampleTimes }
    \cup { [uid |-> u, timestamp |-> t, event_id |-> 442, heart_rate |-> 70] :
             u \in {"u1"}, t \in SampleTimes }
    \cup { [uid |-> "u2", timestamp |-> << Midnight(0) + 60, 0 >>, event_id |-> 442,
            heart_rate |-> 70] }

\* The force_user arguments of the model: none, or u1.
ForceChoices == { {}, {"u1"} }

SampleCollection(doc) == IF doc.event_id = 152 THEN IOS_LOCATION ELSE GARMIN_HR

SummaryInit ==
    /\ store = [c \in Collections |-> {}]
    /\ summaries = {}
    /\ now = Midnight(0) + 120
    /\ users = LoggedInUsers(Midnight(-1))
    /\ api = NoApiData
    /\ idx = 0
    /\ last = [op |-> "init", calls |-> {}, days_back |-> 0]
    /\ pc = "idle"
    /\ upload = {}
    /\ processed = {}
    /\ input = {}
    /\ down = "none"
    /\ records = [c \in Collections |-> << >>]
    /\ recOrder = << >>
    /\ queue = << >>
    /\ todo = {}
    /\ cur = {}
    /\ phase = 1
    /\ baseline = Counts(store)

\* An ingestion run in between: a new document reaches its collection.
IngestSample ==
    /\ Cardinality(UNION { store[c] : c \in Collections }) < MaxSamples
    /\ \E doc \in SampleDocs :
         LET c == SampleCollection(doc)
         IN  /\ ~Stored(store, c, doc)
             /\ store' = [store EXCEPT ![c] = @ \cup {doc}]
    /\ last' = [op |-> "ingest", calls |-> {}, days_back |-> 0]
    /\ UNCHANGED << users, api, summaries, now, upload, processed, down, records, recOrder, pc, queue,
                    todo, cur, idx, input, phase, baseline >>

\* Time passes within the day.
TimePasses ==
    /\ now = Midnight(0) + 120
    /\ now' = Midnight(0) + 43200
    /\ last' = [op |-> "tick", calls |-> {}, days_back |-> 0]
    /\ UNCHANGED << users, api, summaries, upload, processed, store, down, records, recOrder, pc, queue,
                    todo, cur, idx, input, phase, baseline >>

\* generate_daily_summaries(date, force_user)
GenerateDailySummaries ==
    /\ idx < MaxAggregations
    /\ \E date \in { {} } \cup { {d} : d \in { -1, 0 } },
          force \in ForceChoices :
         LET calls == DailyCalls(store, users, date, force, now)
         IN  /\ summaries' = UpsertAll(summaries, Written(calls))
             /\ last' = [op |-> IF date = {} THEN "today" ELSE "backfill",
                         calls |-> calls, days_back |-> 0, force |-> force,
                         written |-> Written(calls),
                         result |-> DailyResult(force)]
    /\ idx' = idx + 1
    /\ UNCHANGED << users, api, now, upload, processed, store, down, records, recOrder, pc, queue,
                    todo, cur, input, phase, baseline >>

\* generate_summaries_for_period(days_back, force_user)
GenerateSummariesForPeriod ==
    /\ idx < MaxAggregations
    /\ \E n \in 1..MaxDaysBack, force \in ForceChoices :
         LET calls == PeriodCalls(store, users, n, force, now, 0)
         IN  /\ summaries' = UpsertAll(summaries, Written(calls))
             /\ last' = [op |-> "period", calls |-> calls, days_back |-> n,
                         force |-> force, written |-> Written(calls),
                         result |-> PeriodResult(n, force)]
    /\ idx' = idx + 1
    /\ UNCHANGED << users, api, now, upload, processed, store, down, records, recOrder, pc, queue,
                    todo, cur, input, phase, baseline >>

\* DataProcessorBase.generate_daily_summary(uid, date) of a study processor
\* on the same store, date being the midnight of a day.
BaseGenerateDailySummary ==
    /\ idx < MaxAggregations
    /\ \E u \in {"u1"}, d \in { -1, 0 } :
         LET s == BaseDailySummary(store, u, d)
         IN  /\ summaries' = UpsertSummary(summaries, s)
             /\ last' = [op |-> "base",
                         calls |-> { [uid |-> u, start |-> Midnight(d),
                                      end |-> Midnight(d + 1), summary |-> s] },
                         days_back |-> 0]
    /\ idx' = idx + 1
    /\ UNCHANGED << users, api, now, upload, processed, store, down, records, recOrder, pc, queue,
                    todo, cur, input, phase, baseline >>

SummaryNext ==
    \/ IngestSample
    \/ TimePasses
    \/ GenerateDailySummaries
    \/ GenerateSummariesForPeriod
    \/ BaseGenerateDailySummary

SpecSummary == SummaryInit /\ [][SummaryNext]_vars

MaxFixes == 3

\* Times of day 0 a fix can have: three one minute apart, one a millisecond
\* less than 15 minutes after the second, one exactly 15 minutes after it
\* and one 20 minutes after it.
FixTimes ==
    { << Midnight(0) + 60, 0 >>, << Midnight(0) + 120, 0 >>, << Midnight(0) + 180, 0 >>,
      << Midnight(0) + 1019, 999 >>, << Midnight(0) + 1020, 0 >>,
      << Midnight(0) + 1320, 0 >> }

\* Coordinates a fix can have: two points a thousandth of a degree apart,
\* the zero point and a point of latitude 91.
FixPoints == { << 45000, 10000 >>, << 45001, 10000 >>, << 0, 0 >>, << 91000, 10000 >> }

Fix(uid, t, code, p) ==
    [uid |-> uid, timestamp |-> t, event_id |-> code, latitude |-> p[1], longitude |-> p[2]]

\* Records the query of the window of u1 on day 0 must leave out: a fix of
\* another user, a record of type code 151 and a fix of the next day.
OtherFixes ==
    { Fix("u2", << Midnight(0) + 90, 0 >>, 152, << 45001, 10000 >>),
      Fix("u1", << Midnight(0) + 150, 0 >>, 151, << 45001, 10000 >>),
      Fix("u1", << Midnight(1) + 60, 0 >>, 152, << 45001, 10000 >>) }

LocationInit ==
    /\ \E ts \in SUBSET FixTimes :
         /\ Cardinality(ts) <= MaxFixes
         /\ \E pt \in [ts -> FixPoints], others \in { {}, OtherFixes } :
              store = [c \in Collections |->
                         IF c = IOS_LOCATION
                         THEN { Fix("u1", t, 152, pt[t]) : t \in ts } \cup others
                         ELSE {}]
    /\ summaries = {}
    /\ now = Midnight(0) + 43200
    /\ users = LoggedInUsers(Midnight(-1))
    /\ api = NoApiData
    /\ idx = 0
    /\ last = [op |-> "init", calls |-> {}, days_back |-> 0]
    /\ pc = "idle"
    /\ upload = {}
    /\ processed = {}
    /\ input = {}
    /\ down = "none"
    /\ records = [c \in Collections |-> << >>]
    /\ recOrder = << >>
    /\ queue = << >>
    /\ todo = {}
    /\ cur = {}
    /\ phase = 1
    /\ baseline = Counts(store)

\* _generate_user_daily_summary of u1 for day 0, as generate_daily_summaries
\* calls it with a date (the day's window) or without (midnight to now).
SummariseLocation ==
    /\ \E end \in { EndOfDay(0), now } :
         last' = [op |-> "summary",
                  calls |-> { SummaryCall(store, "u1", Midnight(0), end, 0, now) },
                  days_back |-> 0]
    /\ UNCHANGED << users, api, summaries, now, upload, processed, store, down, records, recOrder, pc,
                    queue, todo, cur, idx, input, phase, baseline >>

LocationNext == SummariseLocation

SpecLocation == LocationInit /\ [][LocationNext]_vars

\* The location fixes of a user in a window, in timestamp order.
FixesOf(st, uid, start, end) ==
    SortByTimestamp({ d \in st[IOS_LOCATION] :
                        /\ d.uid = uid /\ d.event_id = 152
                        /\ ~TsLess(d.timestamp, << start, 0 >>)
                        /\ TsLess(d.timestamp, << end, 0 >>) })

RECURSIVE SumTo(_, _)
\* f[1] + ... + f[n] (0 when n < 1)
SumTo(f, n) == IF n < 1 THEN 0 ELSE f[n] + SumTo(f, n - 1)

\* The milliseconds between fix i and fix i + 1 of a trace.
GapMs(fixes, i) ==
    (fixes[i + 1].timestamp[1] - fixes[i].timestamp[1]) * 1000
      + fixes[i + 1].timestamp[2] - fixes[i].timestamp[2]

\* C14: the location duration of a summary equals the sum of the gaps
\* between consecutive fixes of the window that are strictly under 15
\* minutes; a gap of 15 minutes or more adds nothing.
C14_LocationDuration ==
    \A c \in last.calls :
      LET fixes == FixesOf(store, c.uid, c.start, c.end)
          counted == [i \in 1..(Len(fixes) - 1) |->
                        IF GapMs(fixes, i) < 15 * 60 * 1000 THEN GapMs(fixes, i) ELSE 0]
      IN  SameHours(c.summary.location.duration_hours,
                    << SumTo(counted, Len(fixes) - 1), 3600000 >>)

\* C14 witness: a summary over three fixes, the third 20 minutes after the
\* second and the second one minute after the first, with a duration of one
\* minute.
C14_Witness ==
    \E c \in last.calls :
      LET fixes == FixesOf(store, c.uid, c.start, c.end)
      IN  /\ Len(fixes) = 3
          /\ GapMs(fixes, 1) = 60000
          /\ GapMs(fixes, 2) = 20 * 60000
          /\ SameHours(c.summary.location.duration_hours, << 1, 60 >>)

\* A point is valid when geopy accepts it, and a zero-coordinate point is
\* the point (0, 0) a fix without coordinates is stored with.
ValidPoint(p) == Abs(p[1]) <= 90000

ZeroPoint(p) == p = << 0, 0 >>

\* The metres between fix i and fix i + 1 of a trace, on the grid of
\* GeoDistance.
SegmentMeters(fixes, i) ==
    111 * (Abs(fixes[i + 1].latitude - fixes[i].latitude)
             + Abs(fixes[i + 1].longitude - fixes[i].longitude))

\* C15: the distance of a summary equals the sum of the distances between
\* consecutive fixes of the window, whatever the time between them, a
\* segment with an invalid or zero-coordinate endpoint adding nothing.
C15_DistanceTraveled ==
    \A c \in last.calls :
      LET fixes == FixesOf(store, c.uid, c.start, c.end)
          Skipped(i) == \E j \in {i, i + 1} :
                          LET p == << fixes[j].latitude, fixes[j].longitude >>
                          IN  ~ValidPoint(p) \/ ZeroPoint(p)
          counted == [i \in 1..(Len(fixes) - 1) |->
                        IF Skipped(i) THEN 0 ELSE SegmentMeters(fixes, i)]
      IN  c.summary.location.distance_traveled = SumTo(counted, Len(fixes) - 1)

(***************************************************************************)
(* _get_garmin_info on bounded sample sets: the store is given heart-rate   *)
(* and stress samples and the function is applied to a user and a window.  *)
(***************************************************************************)
\* Numbers of heart-rate samples with a value above 0 that u1 has on day 0.
WornCounts == { 0, 1, 2, 60, 360 }

\* Numbers of stress samples u1 has on day 0.
StressCounts == { 0, 1, 2 }

\* Sample i of a day: one sample a minute from midnight on.
SampleAt(d, i) == << Midnight(d) + 60 * i, 0 >>

HrSample(uid, t, bpm) == [uid |-> uid, event_id |-> 442, timestamp |-> t, heart_rate |-> bpm]

StressSample(uid, t) == [uid |-> uid, event_id |-> 443, timestamp |-> t, heart_rate |-> 30]

\* Heart-rate samples that must not count for u1 on day 0: values 0 and -1,
\* a sample of another user, a sample of the day before and one of the day
\* after.
OtherHrSamples ==
    { HrSample("u1", SampleAt(0, 400), 0), HrSample("u1", SampleAt(0, 401), -1),
      HrSample("u2", SampleAt(0, 402), 70), HrSample("u1", SampleAt(-1, 403), 70),
      HrSample("u1", SampleAt(1, 0), 70) }

\* Stress samples that must not count for u1 on day 0.
OtherStressSamples ==
    { StressSample("u2", SampleAt(0, 402)), StressSample("u1", SampleAt(1, 0)) }

GarminInfoInit ==
    /\ \E n \in WornCounts, k \in StressCounts,
          oh \in SUBSET OtherHrSamples, os \in SUBSET OtherStressSamples :
         store = [c \in Collections |->
                    IF c = GARMIN_HR
                    THEN { HrSample("u1", SampleAt(0, i), 70) : i \in 1..n } \cup oh
                    ELSE IF c = GARMIN_STRESS
                    THEN { StressSample("u1", SampleAt(0, i)) : i \in 1..k } \cup os
                    ELSE {}]
    /\ summaries = {}
    /\ now = Midnight(0) + 43200
    /\ users = LoggedInUsers(Midnight(-1))
    /\ api = NoApiData
    /\ idx = 0
    /\ last = [op |-> "init", calls |-> {}, days_back |-> 0]
    /\ pc = "idle"
    /\ upload = {}
    /\ processed = {}
    /\ input = {}
    /\ down = "none"
    /\ records = [c \in Collections |-> << >>]
    /\ recOrder = << >>
    /\ queue = << >>
    /\ todo = {}
    /\ cur = {}
    /\ phase = 1
    /\ baseline = Counts(store)

\* _generate_user_daily_summary of u1 for day 0, with the window of the day
\* or the window from midnight to now.
SummariseGarmin ==
    /\ \E end \in { EndOfDay(0), now } :
         last' = [op |-> "summary",
                  calls |-> { SummaryCall(store, "u1", Midnight(0), end, 0, now) },
                  days_back |-> 0]
    /\ UNCHANGED << users, api, summaries, now, upload, processed, store, down, records, recOrder, pc,
                    queue, todo, cur, idx, input, phase, baseline >>

GarminInfoNext == SummariseGarmin

SpecGarminInfo == GarminInfoInit /\ [][GarminInfoNext]_vars

\* The samples of a collection a user has in [start, end).
SamplesOf(st, coll, uid, start, end) ==
    { d \in st[coll] :
        /\ d.uid = uid
        /\ ~TsLess(d.timestamp, << start, 0 >>)
        /\ TsLess(d.timestamp, << end, 0 >>) }

\* C16: the wear duration of a summary is the number of heart-rate samples
\* of the user in the window with a value above 0, divided by 6*60, and the
\* monitoring-on duration is the number of stress samples of the user in
\* the window divided by 6*60.
C16_GarminDurations ==
    \A c \in last.calls :
      LET worn == { d \in SamplesOf(store, GARMIN_HR, c.uid, c.start, c.end) :
                      d.heart_rate > 0 }
          on == SamplesOf(store, GARMIN_STRESS, c.uid, c.start, c.end)
      IN  /\ SameHours(c.summary.garmin_wear_duration, << Cardinality(worn), 360 >>)
          /\ SameHours(c.summary.garmin_on_duration, << Cardinality(on), 360 >>)

\* C16 witness: a summary computed over a store that holds counted samples
\* next to samples of value 0 and below, of another user and of other days.
C16_Witness ==
    \E c \in last.calls :
      /\ OtherHrSamples \subseteq store[GARMIN_HR]
      /\ OtherStressSamples \subseteq store[GARMIN_STRESS]
      /\ SameHours(c.summary.garmin_wear_duration, << 2, 360 >>)
      /\ SameHours(c.summary.garmin_on_duration, << 1, 360 >>)

\* The heart-rate samples with a value above 0 the user of a call has in
\* the window of the call.
WornSamples(c) ==
    { d \in SamplesOf(store, GARMIN_HR, c.uid, c.start, c.end) : d.heart_rate > 0 }

\* C17 as stated: 60 heart-rate samples with a value above 0 in one day
\* yield a wear duration of 1.0 hour in the summary of the day.
C17_SixtySamplesOneHour ==
    \A c \in last.calls :
      Cardinality(WornSamples(c)) = 60 =>
        SameHours(c.summary.garmin_wear_duration, << 1, 1 >>)

\* C17 amended: 60 heart-rate samples with a value above 0 in one day yield
\* a wear duration of 60 / (6*60) = 1/6 hour in the summary of the day, and
\* 360 such samples yield 1.0 hour.
C17_SixtySamplesSixthHour ==
    \A c \in last.calls :
      /\ Cardinality(WornSamples(c)) = 60 =>
           SameHours(c.summary.garmin_wear_duration, << 1, 6 >>)
      /\ Cardinality(WornSamples(c)) = 360 =>
           SameHours(c.summary.garmin_wear_duration, << 1, 1 >>)

\* C17 witness: a summary of a day with 60 counted heart-rate samples and a
\* wear duration of a sixth of an hour.
C17_Witness ==
    \E c \in last.calls :
      /\ Cardinality(WornSamples(c)) = 60
      /\ c.summary.garmin_wear_duration = << 60, 360 >>

\* C18: in backfill mode the window is the whole day.  After a call of
\* generate_daily_summaries with a date, the wear duration of each summary
\* counts exactly the heart-rate samples of the user with
\* day-start <= t < day-start + 24h.
C18_BackfillFullDay ==
    last.op = "backfill" =>
      \A c \in last.calls :
        LET day == { d \in store[GARMIN_HR] :
                       /\ d.uid = c.uid
                       /\ d.heart_rate > 0
                       /\ ~TsLess(d.timestamp, << c.summary.date, 0 >>)
                       /\ TsLess(d.timestamp, << c.summary.date + 24 * 3600, 0 >>) }
        IN  SameHours(c.summary.garmin_wear_duration, << Cardinality(day), 360 >>)

\* C20: generate_summaries_for_period(days_back = N) computes, for every
\* selected user, a summary of today and of each of the N days before it:
\* N + 1 day summaries.
C20_PeriodCoversNPlusOneDays ==
    last.op = "period" =>
      \A u \in { c.uid : c \in last.calls } :
        { c.summary.date : c \in { x \in last.calls : x.uid = u } }
          = { Midnight(DateOf(now) - i) : i \in 0..last.days_back }

(***************************************************************************)
(* Timestamp normalisation on raw values of up to 13 digits.  A raw value  *)
(* is written << thousands, units >> and stands for                        *)
(* thousands * 1000 + units (units in 0..999); the result is float seconds *)
(* written << whole seconds, milliseconds >>.                              *)
(***************************************************************************)
\* len(str_time.split(".")[0])
WideDigits(raw) ==
    IF raw[1] = 0 THEN NumDigits(raw[2]) ELSE NumDigits(raw[1]) + 3

\* HandleTimestampFormatWide without the test on the number of digits:
\* every value is taken for milliseconds.
HandleTimestampFormatAlwaysMillis(raw) == << raw[1], raw[2] >>

\* DataProcessor._handle_timestamp_format
HandleTimestampFormatWide(raw) ==
    IF WideDigits(raw) = 10 THEN << raw[1] * 1000 + raw[2], 0 >>
    ELSE << raw[1], raw[2] >>

\* handlers.handle_timestamp_format
handle_timestamp_format(raw) ==
    IF WideDigits(raw) = 10 THEN << raw[1] * 1000 + raw[2], 0 >>
    ELSE << raw[1], raw[2] >>

\* The raw timestamps of the model: values of 1 to 13 digits, the 10 digit
\* ones below 2^31.
RawThousands ==
    { 0, 1, 99, 1690, 99999, 999999, 1000000, 1690000, 2147482, 10000000,
      1690000000, 2147483647 }

RawUnits == { 0, 1, 9, 10, 60, 99, 100, 500, 999 }

RawWide == { << th, u >> : th \in RawThousands, u \in RawUnits }

TimestampInit ==
    /\ input = << 0, 0 >>
    /\ last = [op |-> "init", raw |-> << 0, 0 >>, result |-> << 0, 0 >>]
    /\ store = [c \in Collections |-> {}]
    /\ summaries = {}
    /\ now = 0
    /\ users = InitialUsers
    /\ api = NoApiData
    /\ idx = 0
    /\ pc = "idle"
    /\ upload = {}
    /\ processed = {}
    /\ down = "none"
    /\ records = [c \in Collections |-> << >>]
    /\ recOrder = << >>
    /\ queue = << >>
    /\ todo = {}
    /\ cur = {}
    /\ phase = 1
    /\ baseline = Counts(store)

\* A row handler of the DataProcessor normalises the timestamp of a row.
ProcessorNormalises ==
    /\ \E raw \in RawWide :
         /\ input' = raw
         /\ last' = [op |-> "processor", raw |-> raw,
                     result |-> HandleTimestampFormatWide(raw)]
    /\ UNCHANGED << users, api, summaries, now, upload, processed, store, down, records, recOrder, pc,
                    queue, todo, cur, idx, phase, baseline >>

\* A request handler normalises a timestamp it was sent.
HandlerNormalises ==
    /\ \E raw \in RawWide :
         /\ input' = raw
         /\ last' = [op |-> "handler", raw |-> raw,
                     result |-> handle_timestamp_format(raw)]
    /\ UNCHANGED << users, api, summaries, now, upload, processed, store, down, records, recOrder, pc,
                    queue, todo, cur, idx, phase, baseline >>

TimestampNext ==
    \/ ProcessorNormalises
    \/ HandlerNormalises

SpecTimestamp == TimestampInit /\ [][TimestampNext]_vars

\* C19: timestamp normalisation.  A raw timestamp of exactly 10 digits
\* (10^9 <= value < 10^10) comes back unchanged, as seconds; any other value
\* comes back divided by 1000; so 1690000000 and 1690000000000 both give
\* 1690000000.0.
C19_TimestampNormalisation ==
    last.op \in { "processor", "handler" } =>
      LET th == last.raw[1]
          u == last.raw[2]
      IN  /\ (1000000 <= th /\ th < 10000000) => last.result = << th * 1000 + u, 0 >>
          /\ ~(1000000 <= th /\ th < 10000000) => last.result = << th, u >>
          /\ last.raw = << 1690000, 0 >> => last.result = << 1690000000, 0 >>
          /\ last.raw = << 1690000000, 0 >> => last.result = << 1690000000, 0 >>

\* C19 witness: the 13 digit value 1690000000000 was normalised to
\* 1690000000.0 seconds.
C19_Witness ==
    /\ last.op \in { "processor", "handler" }
    /\ last.raw = << 1690000000, 0 >>
    /\ last.result = << 1690000000, 0 >>

(***************************************************************************)
(* The API (core/api.py) and the users collection.  A request carries its  *)
(* auth_key as a set of at most one string ({}: the field is missing).     *)
(* current_milli_time() is written << now, 0 >>.                           *)
(***************************************************************************)
\* config.security.auth_key
AuthKey == "your-auth-key"

\* The auth_key of a request: missing, the configured key, another key.
AuthChoices == { {}, { AuthKey }, { "other-key" } }

\* Login timestamps one device of one user can collect in a behaviour.
MaxLogins == 1

\* The document of uid in the users collection, as a set of at most one.
FindUser(us, uid) == { d \in us : d.uid = uid }

\* user[device_login_time] when the field is there, else the empty list.
LoginTimestamps(doc, device) ==
    IF LoginField(device) \in DOMAIN doc THEN doc[LoginField(device)] ELSE << >>

\* login_check: -1 without a document of the user (or when the collection
\* raises), 0 on a wrong password; on the right one the login time is
\* appended to <device>_login_time and 1 is returned (2 for a user with an
\* 'ra' field).
LoginCheck(us, uid, password, device, t) ==
    LET found == FindUser(us, uid) IN
    IF down = USERS \/ found = {} THEN [users |-> us, type |-> -1]
    ELSE LET user == CHOOSE d \in found : TRUE
             stamped == SetField(user, LoginField(device),
                                 Append(LoginTimestamps(user, device), << t, 0 >>))
         IN  IF user.study_pass = password
             THEN [users |-> (us \ {user}) \cup {stamped},
                   type |-> IF "ra" \in DOMAIN user THEN 2 ELSE 1]
             ELSE [users |-> us, type |-> 0]

\* uid.__contains__('varunm'): the test user of Login.post.
TestUser(uid) == uid = "varunm"

\* The (uid, device) pairs login requests are drawn from.
LoginRequests ==
    { << "u1", "ios" >>, << "u1", "android" >>, << "u2", "garmin" >>,
      << "u9", "ios" >>, << "varunm", "ios" >> }

\* Login.post on a request that passes LoginSchema.
LoginPost ==
    /\ \E rq \in LoginRequests, password \in { "pass", "wrong" }, auth \in AuthChoices :
         LET uid == rq[1]
             device == rq[2]
             checked == auth = { AuthKey } /\ ~TestUser(uid)
             r == LoginCheck(users, uid, password, device, now)
         IN  /\ \A d \in FindUser(users, uid) :
                  Len(LoginTimestamps(d, device)) < MaxLogins
             /\ users' = IF checked THEN r.users ELSE users
             /\ last' = [op |-> "login", auth |-> auth, uid |-> uid,
                         code |-> IF auth # { AuthKey } THEN 403
                                  ELSE IF TestUser(uid) \/ r.type \in { 1, 2 }
                                       THEN 200 ELSE 401]
    /\ UNCHANGED << api, summaries, now, upload, processed, store, down, records,
                    recOrder, pc, queue, todo, cur, idx, input, phase, baseline >>

(***************************************************************************)
(* Which users an aggregation call writes a summary for: participants log  *)
(* in through the API, and generate_daily_summaries and                    *)
(* generate_summaries_for_period run on an empty store, with the           *)
(* daily_summaries or the users collection possibly down.                  *)
(***************************************************************************)
SelectInit ==
    /\ store = [c \in Collections |-> {}]
    /\ summaries = {}
    /\ now = Midnight(0) + 120
    /\ users = InitialUsers
    /\ api = NoApiData
    /\ idx = 0
    /\ last = [op |-> "init", calls |-> {}, days_back |-> 0]
    /\ pc = "idle"
    /\ upload = {}
    /\ processed = {}
    /\ input = {}
    /\ down \in { "none", DAILY_SUMMARY, USERS }
    /\ records = [c \in Collections |-> << >>]
    /\ recOrder = << >>
    /\ queue = << >>
    /\ todo = {}
    /\ cur = {}
    /\ phase = 1
    /\ baseline = Counts(store)

SelectNext ==
    \/ LoginPost
    \/ GenerateDailySummaries
    \/ GenerateSummariesForPeriod

SpecSelect == SelectInit /\ [][SelectNext]_vars

\* The users with recorded device-login activity.
HasLoggedIn ==
    { d.uid : d \in { x \in users : \/ Len(LoginTimestamps(x, "ios")) > 0
                                     \/ Len(LoginTimestamps(x, "garmin")) > 0 } }

\* The users one call of generate_daily_summaries wrote a summary for.
WrittenUsers == { c.uid : c \in last.written }

\* C21: after generate_daily_summaries without force_user, every user a
\* summary was written for has logged in on the phone or on the watch;
\* after generate_daily_summaries with force_user, no summary was written
\* for another user, and (the daily_summaries collection answering) one was
\* written for that user, logged in or not.
C21_LoginSelectedUsers ==
    last.op \in { "today", "backfill" } =>
      IF last.force = {}
      THEN WrittenUsers \subseteq HasLoggedIn
      ELSE /\ WrittenUsers \subseteq last.force
           /\ down # DAILY_SUMMARY => WrittenUsers = last.force

\* C21 witness: a call with force_user wrote a summary for a user who has
\* logged in on no phone and no watch (only on another device), after a
\* call without force_user had written one for the user who had logged in
\* on the watch and none for the forced user.
C21_Witness ==
    /\ last.op \in { "today", "backfill" }
    /\ last.force = { "u1" }
    /\ WrittenUsers = { "u1" }
    /\ "u1" \notin HasLoggedIn
    /\ \E d \in users : d.uid = "u1" /\ LoginField("android") \in DOMAIN d
    /\ "u2" \in HasLoggedIn
    /\ \E d \in summaries : d.uid = "u2"
    /\ \E d \in summaries : d.uid = "u2" /\ ~\E e \in summaries : e.uid = "u1" /\ e.date = d.date

\* C30: when generate_daily_summaries (or generate_summaries_for_period)
\* has returned True, the store holds, for every user the call selected, the
\* summary document of that user and day with the values this call computed;
\* and a call one of whose summaries was not written has returned False.
C30_TrueMeansWritten ==
    last.op \in { "today", "backfill", "period" } =>
      /\ last.result =>
           \A c \in last.calls :
             \E d \in summaries :
               /\ d.uid = c.summary.uid
               /\ d.date = c.summary.date
               /\ \A k \in DOMAIN c.summary : d[k] = c.summary[k]
      /\ last.written # last.calls => ~last.result

(***************************************************************************)
(* Per-user isolation of a run (Spec): the users of one run share the      *)
(* DataProcessor and with it the batch queue.                              *)
(***************************************************************************)
\* The rows of the uploaded containers of a user, as <<container, index>>.
RowsOfUser(u) ==
    UNION { { << f, i >> : i \in 1..Len(f.content.rows) } :
              f \in { g \in input : g.uid = u } }

\* Nothing fails while the containers of user u are ingested on their own:
\* they can all be read, no record of them goes to the collection that is
\* down, and no two of their rows yield records with the same unique index
\* value.
IngestsCleanly(u) ==
    /\ \A f \in input : f.uid = u => ~f.content.corrupt
    /\ \A x \in RowsOfUser(u) :
         \A rec \in ProcessRow(u, x[1].content.rows[x[2]]) :
           /\ rec[1] # down
           /\ \A y \in RowsOfUser(u) \ {x} :
                \A other \in ProcessRow(u, y[1].content.rows[y[2]]) :
                  ~(other[1] = rec[1] /\ IndexKey(rec[1], other[2]) = IndexKey(rec[1], rec[2]))

\* C22: per-user isolation.  When a run has ended, every record of a user
\* whose own containers ingest without a failure is in the store, whatever
\* failed for the other users of the run.
C22_PerUserIsolation ==
    (pc = "done" /\ phase = 1) =>
      \A u \in Range(Users) :
        IngestsCleanly(u) =>
          \A f \in input : f.uid = u =>
            \A rec \in RecordsOf(f) : Stored(store, rec[1], rec[2])

(***************************************************************************)
(* The full run.  process_all_data visits the users in turn               *)
(* (process_phone_data, then process_garmin_data) and calls                *)
(* generate_daily_summaries once after the loop; files arrive through      *)
(* UploadFile.post at any time, and runs are scheduled again and again.    *)
(* Each call is one step, computed from the operators of the call's body.  *)
(***************************************************************************)
\* ALLOWED_EXTENSIONS
ALLOWED_EXTENSIONS == { "db", "dbr", "dbre", "zip", "mov", "mp4", "txt", "json", "fit" }

\* allowed_file, on the extension of the file name.
AllowedFile(name) == name.ext \in ALLOWED_EXTENSIONS

\* The files upload requests are drawn from: for u1 a container of one
\* location row and a FIT file, and a file of an extension that is not
\* allowed.
UploadChoices ==
    { File("u1", "a", [corrupt |-> FALSE, rows |-> << Row(1690000000, 152, "ok") >>]),
      FitFile("u1", "a", [exit |-> 0, csvdir |-> TRUE,
                          csv |-> [m \in GarminMetrics |-> "rows"], at |-> 1690000000]),
      [uid |-> "u1", name |-> [stem |-> "a", ext |-> "exe", dup |-> FALSE],
       content |-> [corrupt |-> TRUE, rows |-> << >>]] }

\* UploadFile.post on a request that carries a file with a file name:
\* 400 for a file type that is not allowed, 403 for a wrong or missing
\* auth_key and for a participant whose study has ended (check_end_date,
\* read from the user_info collection), else the file goes through
\* save_file and the answer is 200.
UploadFilePost ==
    /\ \E f \in UploadChoices, auth \in AuthChoices, ended \in BOOLEAN :
         LET code == IF ~AllowedFile(f.name) THEN 400
                     ELSE IF auth # { AuthKey } \/ ended THEN 403
                     ELSE 200
         IN  /\ upload' = IF code = 200 THEN SaveFile(upload, f) ELSE upload
             /\ last' = [op |-> "upload_file", auth |-> auth, uid |-> f.uid,
                         code |-> code]
    /\ UNCHANGED << users, api, summaries, now, processed, store, down, records,
                    recOrder, pc, queue, todo, cur, idx, input, phase, baseline >>

RECURSIVE ReadRows(_, _, _)
\* The row loop of _process_ios_database from row i on: s is
\* [store, records, order].
ReadRows(s, f, i) ==
    IF i > Len(f.content.rows) THEN s
    ELSE LET out == ProcessRow(f.uid, f.content.rows[i])
         IN  IF out = {} THEN ReadRows(s, f, i + 1)
             ELSE LET rec == CHOOSE x \in out : TRUE
                  IN  ReadRows(AddRecord(s.store, s.records, s.order, rec[1], rec[2]),
                               f, i + 1)

\* archive_file on the two locations.
Archived(s, f) ==
    [s EXCEPT !.upload = @ \ {f},
              !.processed = { g \in @ : ~SameName(g, f) } \cup {f}]

RECURSIVE SensorData(_, _)
\* _process_sensor_data over the globbed containers: s is
\* [store, records, order, upload, processed].  A container that cannot be
\* read is logged and left where it is; a container that was read is
\* archived.
SensorData(s, files) ==
    IF files = {} THEN s
    ELSE LET f == CHOOSE x \in files : TRUE
         IN  IF f.content.corrupt THEN SensorData(s, files \ {f})
             ELSE LET r == ReadRows([store |-> s.store, records |-> s.records,
                                     order |-> s.order], f, 1)
                  IN  SensorData(Archived([s EXCEPT !.store = r.store,
                                                    !.records = r.records,
                                                    !.order = r.order], f),
                                 files \ {f})

\* process_phone_data(u): nothing without an upload directory, else the
\* containers are read and archived and flush_records() ends the call.
ProcessPhoneData(s, u) ==
    IF ~DirExists(u) THEN s
    ELSE LET a == SensorData(s, GlobDb(u))
             fl == FlushRecords(a.order, a.store, a.records)
         IN  [a EXCEPT !.store = fl.store, !.records = fl.records]

RECURSIVE GarminFiles(_, _)
\* The file loop of process_garmin_data: a file the decoder fails on, or
\* whose CSV directory is missing, is left where it is; any other file is
\* loaded and archived.
GarminFiles(s, files) ==
    IF files = {} THEN s
    ELSE LET f == CHOOSE x \in files : TRUE
         IN  IF f.content.exit # 0 \/ ~f.content.csvdir
             THEN GarminFiles(s, files \ {f})
             ELSE GarminFiles(Archived([s EXCEPT !.store = InsertGarmin(s.store, f)], f),
                              files \ {f})

\* process_garmin_data(u)
ProcessGarminData(s, u) ==
    IF ~DirExists(u) THEN s ELSE GarminFiles(s, GlobFit(u))

\* The state a per-user call works on.
RunState ==
    [store |-> store, records |-> records, order |-> recOrder,
     upload |-> upload, processed |-> processed]

RunInit ==
    /\ store = [c \in Collections |-> {}]
    /\ summaries = {}
    /\ now = Midnight(0) + 120
    /\ users = LoggedInUsers(Midnight(-1))
    /\ api = NoApiData
    /\ idx = 0
    /\ last = [op |-> "init"]
    /\ pc = "idle"
    /\ upload = {}
    /\ processed = {}
    /\ input = {}
    /\ down = "none"
    /\ records = [c \in Collections |-> << >>]
    /\ recOrder = << >>
    /\ queue = << >>
    /\ todo = {}
    /\ cur = {}
    /\ phase = 1
    /\ baseline = Counts(store)

\* process_all_data is scheduled: a new DataProcessor and the users cursor.
ScheduleRun ==
    /\ pc = "idle"
    /\ records' = [c \in Collections |-> << >>]
    /\ recOrder' = << >>
    /\ queue' = Users
    /\ pc' = "phone"
    /\ last' = [op |-> "schedule"]
    /\ UNCHANGED << users, api, summaries, now, upload, processed, store, down,
                    todo, cur, idx, input, phase, baseline >>

\* processor.process_phone_data(uid) for the user the loop is at
RunPhoneData ==
    /\ pc = "phone"
    /\ LET r == ProcessPhoneData(RunState, Head(queue))
       IN  /\ store' = r.store
           /\ records' = r.records
           /\ recOrder' = r.order
           /\ upload' = r.upload
           /\ processed' = r.processed
    /\ pc' = "garmin"
    /\ last' = [op |-> "phone", uid |-> Head(queue)]
    /\ UNCHANGED << users, api, summaries, now, down, queue, todo, cur, idx, input,
                    phase, baseline >>

\* processor.process_garmin_data(uid) for the same user; the loop moves on
\* to the next user, or leaves for generate_daily_summaries.
RunGarminData ==
    /\ pc = "garmin"
    /\ LET r == ProcessGarminData(RunState, Head(queue))
       IN  /\ store' = r.store
           /\ upload' = r.upload
           /\ processed' = r.processed
    /\ queue' = Tail(queue)
    /\ pc' = IF Tail(queue) = << >> THEN "summaries" ELSE "phone"
    /\ last' = [op |-> "garmin", uid |-> Head(queue)]
    /\ UNCHANGED << users, api, summaries, now, down, records, recOrder, todo, cur,
                    idx, input, phase, baseline >>

\* processor.generate_daily_summaries(), after the user loop; the run ends.
RunSummaries ==
    /\ pc = "summaries"
    /\ LET calls == DailyCalls(store, users, {}, {}, now)
       IN  /\ summaries' = UpsertAll(summaries, Written(calls))
           /\ last' = [op |-> "summaries", written |-> { c.uid : c \in Written(calls) }]
    /\ pc' = "idle"
    /\ UNCHANGED << users, api, now, upload, processed, store, down, records,
                    recOrder, queue, todo, cur, idx, input, phase, baseline >>

\* The steps of a scheduled run.
RunStep == ScheduleRun \/ RunPhoneData \/ RunGarminData \/ RunSummaries

RunNext ==
    \/ UploadFilePost
    \/ ScheduleRun
    \/ RunPhoneData
    \/ RunGarminData
    \/ RunSummaries

SpecRun == RunInit /\ [][RunNext]_vars

\* Runs keep being scheduled (the scheduler starts process_all_data again
\* and again) and every scheduled run goes on to its end.  Every position of
\* a run has its step, so RunStep is enabled in every state and its weak
\* fairness is that it is taken again and again.
SpecRunFair == SpecRun /\ WF_vars(ScheduleRun) /\ []<><<RunStep>>_vars

\* C23: in a full run the user loop goes on to the ingestion of the next
\* user only when the user it leaves has a daily summary of the day in the
\* store.
C23_SummaryBeforeNextUser ==
    [][ (pc = "garmin" /\ pc' = "phone")
        => \E d \in summaries' :
             d.uid = Head(queue) /\ d.date = Midnight(DateOf(now)) ]_vars

(***************************************************************************)
(* Two runs at once.  Two process_all_data jobs work on the same upload    *)
(* location and the same store, each with its own DataProcessor: the       *)
(* variables records, recOrder, pc, queue, todo, cur and idx hold one      *)
(* value per run.  A bulk write is one step of the store; everything else  *)
(* of the two runs interleaves freely.                                     *)
(***************************************************************************)
Runs == { 1, 2 }

\* The containers the two runs find uploaded: for each user none or one,
\* of rows with distinct unique index values.
ConcurrentInputs ==
    { f1 \cup f2 :
        f1 \in { {} } \cup
               { { File("u1", "a", [corrupt |-> FALSE, rows |-> r]) } :
                   r \in { << Row(1690000000, 152, "ok") >>,
                           << Row(1690000000, 152, "ok"), Row(1690000000, 21, "ok") >> } },
        f2 \in { {} } \cup
               { { File("u2", "a", [corrupt |-> FALSE, rows |-> r]) } :
                   r \in { << Row(1690000000, 21, "ok") >>,
                           << Row(1690000000, 152, "ok"), Row(1690000000, 21, "ok") >> } } }

ConcurrentInit ==
    /\ input \in ConcurrentInputs
    /\ upload = input
    /\ processed = {}
    /\ store = [c \in Collections |-> {}]
    /\ down = "none"
    /\ records = [p \in Runs |-> [c \in Collections |-> << >>]]
    /\ recOrder = [p \in Runs |-> << >>]
    /\ pc = [p \in Runs |-> "idle"]
    /\ queue = [p \in Runs |-> << >>]
    /\ todo = [p \in Runs |-> {}]
    /\ cur = [p \in Runs |-> {}]
    /\ idx = [p \in Runs |-> 1]
    /\ phase = 1
    /\ baseline = Counts(store)
    /\ last = Step("init", "none")
    /\ summaries = {}
    /\ now = 0
    /\ users = InitialUsers
    /\ api = NoApiData

\* The position of run p after the user it is at.
AfterUserOf(p) == IF Tail(queue[p]) = << >> THEN "done" ELSE "user"

\* process_all_data of run p: a new DataProcessor and the user loop.
ConcurrentStart(p) ==
    /\ pc[p] = "idle"
    /\ queue' = [queue EXCEPT ![p] = Users]
    /\ pc' = [pc EXCEPT ![p] = "user"]
    /\ last' = Step("start", "none")
    /\ UNCHANGED << users, api, summaries, now, upload, processed, store, down,
                    records, recOrder, todo, cur, idx, input, phase, baseline >>

\* process_phone_data of run p, no upload directory.
ConcurrentNoDirectory(p) ==
    /\ pc[p] = "user"
    /\ ~DirExists(Head(queue[p]))
    /\ queue' = [queue EXCEPT ![p] = Tail(@)]
    /\ pc' = [pc EXCEPT ![p] = AfterUserOf(p)]
    /\ last' = Step("nodir", "none")
    /\ UNCHANGED << users, api, summaries, now, upload, processed, store, down,
                    records, recOrder, todo, cur, idx, input, phase, baseline >>

\* _process_sensor_data of run p globs the containers of the user.
ConcurrentGlob(p) ==
    /\ pc[p] = "user"
    /\ DirExists(Head(queue[p]))
    /\ todo' = [todo EXCEPT ![p] = GlobDb(Head(queue[p]))]
    /\ pc' = [pc EXCEPT ![p] = "files"]
    /\ last' = Step("glob", "none")
    /\ UNCHANGED << users, api, summaries, now, upload, processed, store, down,
                    records, recOrder, queue, cur, idx, input, phase, baseline >>

\* _process_ios_database of run p connects to a globbed container and
\* fetches its rows.  When the other run has moved the file away in the
\* meantime, sqlite3.connect creates an empty database under the name, which
\* has no table and no row.
ConcurrentOpen(p) ==
    /\ pc[p] = "files"
    /\ \E g \in todo[p] :
         LET there == { f \in upload : SameName(f, g) }
             f == IF there = {} THEN [g EXCEPT !.content.rows = << >>]
                  ELSE CHOOSE x \in there : TRUE
         IN  /\ upload' = upload \cup {f}
             /\ cur' = [cur EXCEPT ![p] = {f}]
             /\ todo' = [todo EXCEPT ![p] = @ \ {g}]
             /\ pc' = [pc EXCEPT ![p] = IF f.content.rows = << >> THEN "archive" ELSE "rows"]
    /\ idx' = [idx EXCEPT ![p] = 1]
    /\ last' = Step("open", "none")
    /\ UNCHANGED << users, api, summaries, now, processed, store, down, records,
                    recOrder, queue, input, phase, baseline >>

\* One turn of the row loop of run p: classification and add_record on the
\* buffers of the run.
ConcurrentRow(p) ==
    /\ pc[p] = "rows"
    /\ LET f == CHOOSE x \in cur[p] : TRUE
           out == ProcessRow(f.uid, f.content.rows[idx[p]])
       IN  /\ IF out = {}
              THEN UNCHANGED << store, records, recOrder >>
              ELSE LET rec == CHOOSE x \in out : TRUE
                       r == AddRecord(store, records[p], recOrder[p], rec[1], rec[2])
                   IN  /\ store' = r.store
                       /\ records' = [records EXCEPT ![p] = r.records]
                       /\ recOrder' = [recOrder EXCEPT ![p] = r.order]
           /\ pc' = [pc EXCEPT ![p] = IF idx[p] = Len(f.content.rows)
                                      THEN "archive" ELSE "rows"]
    /\ idx' = [idx EXCEPT ![p] = @ + 1]
    /\ last' = Step("row", "none")
    /\ UNCHANGED << users, api, summaries, now, upload, processed, down, queue,
                    todo, cur, input, phase, baseline >>

\* archive_file of run p: shutil.move, which raises (caught and logged)
\* when the other run has moved the file already.
ConcurrentArchive(p) ==
    /\ pc[p] = "archive"
    /\ LET f == CHOOSE x \in cur[p] : TRUE
       IN  IF f \in upload
           THEN /\ upload' = upload \ {f}
                /\ processed' = { g \in processed : ~SameName(g, f) } \cup {f}
           ELSE UNCHANGED << upload, processed >>
    /\ cur' = [cur EXCEPT ![p] = {}]
    /\ pc' = [pc EXCEPT ![p] = "files"]
    /\ last' = Step("archive", "none")
    /\ UNCHANGED << users, api, summaries, now, store, down, records, recOrder,
                    queue, todo, idx, input, phase, baseline >>

\* The end of process_phone_data of run p: flush_records().
ConcurrentFlush(p) ==
    /\ pc[p] = "files"
    /\ todo[p] = {}
    /\ LET f == FlushRecords(recOrder[p], store, records[p])
       IN  /\ store' = f.store
           /\ records' = [records EXCEPT ![p] = f.records]
    /\ queue' = [queue EXCEPT ![p] = Tail(@)]
    /\ pc' = [pc EXCEPT ![p] = AfterUserOf(p)]
    /\ last' = Step("flush", "none")
    /\ UNCHANGED << users, api, summaries, now, upload, processed, down, recOrder,
                    todo, cur, idx, input, phase, baseline >>

ConcurrentNext ==
    \E p \in Runs :
      \/ ConcurrentStart(p)
      \/ ConcurrentNoDirectory(p)
      \/ ConcurrentGlob(p)
      \/ ConcurrentOpen(p)
      \/ ConcurrentRow(p)
      \/ ConcurrentArchive(p)
      \/ ConcurrentFlush(p)

SpecConcurrent == ConcurrentInit /\ [][ConcurrentNext]_vars

\* C24: when two concurrent runs over the same uploaded containers have
\* ended, no two documents of a collection share a unique index value and
\* every record of the containers is in the store, as after a single run.
C24_ConcurrentRunsAsOne ==
    (\A p \in Runs : pc[p] = "done") =>
      /\ \A c \in Collections : \A d, e \in store[c] :
           IndexKey(c, d) = IndexKey(c, e) => d = e
      /\ \A f \in input : \A rec \in RecordsOf(f) : Stored(store, rec[1], rec[2])

\* A single run over the same containers leaves every record in the store:
\* one run has ended before the other began.
SingleRunComplete ==
    (pc[1] = "done" /\ pc[2] = "idle") =>
      \A f \in input : \A rec \in RecordsOf(f) : Stored(store, rec[1], rec[2])

(***************************************************************************)
(* EMA compliance.  Containers carry EMA status events (type code 503) and *)
(* EMA responses (502); a run ingests them into ema_status_events and      *)
(* ema_response, and the two summary implementations report on the EMAs    *)
(* of a window.  The payload of an EMA row is its decoded event_data.      *)
(***************************************************************************)
\* Documents the two EMA collections hold together.
MaxEmaEvents == 2

EmaTimes == { Midnight(0) - 100, Midnight(0) + 100, Midnight(0) + 200 }

\* The EMA rows containers are built from.
EmaRows ==
    { [ts |-> t, code |-> 503, ncols |-> 5, payload |-> [ema_id |-> e, status |-> st]] :
        t \in EmaTimes, e \in { "e1", "e2" }, st \in { "scheduled", "completed" } }
    \cup { [ts |-> t, code |-> 502, ncols |-> 5, payload |-> [ema_id |-> e]] :
             t \in EmaTimes, e \in { "e1", "e2" } }

\* _process_ema_status_record and _process_ema_response_record, reached
\* through the dispatch of _process_event_by_id: the record of the row with
\* the ema_id (and, for a status event, the status) of its event_data.
ProcessEmaRecord(user, row) ==
    { << r[1],
         [k \in DOMAIN r[2] \cup DOMAIN row.payload |->
            IF k \in DOMAIN row.payload THEN row.payload[k] ELSE r[2][k]] >> :
        r \in ProcessRow(user, [row EXCEPT !.payload = "ok"]) }

EmaInit ==
    /\ store = [c \in Collections |-> {}]
    /\ summaries = {}
    /\ now = Midnight(0) + 43200
    /\ users = LoggedInUsers(Midnight(-1))
    /\ api = NoApiData
    /\ idx = 0
    /\ last = [op |-> "init", calls |-> {}, days_back |-> 0]
    /\ pc = "idle"
    /\ upload = {}
    /\ processed = {}
    /\ input = {}
    /\ down = "none"
    /\ records = [c \in Collections |-> << >>]
    /\ recOrder = << >>
    /\ queue = << >>
    /\ todo = {}
    /\ cur = {}
    /\ phase = 1
    /\ baseline = Counts(store)

\* An ingestion run in between: the record of one EMA row of a container of
\* u1 is written to its collection.
IngestEmaRow ==
    /\ Cardinality(store[EMA_STATUS_EVENTS] \cup store[EMA_RESPONSE]) < MaxEmaEvents
    /\ \E row \in EmaRows : \E rec \in ProcessEmaRecord("u1", row) :
         /\ ~Stored(store, rec[1], rec[2])
         /\ store' = [store EXCEPT ![rec[1]] = InsertMany(rec[1], @, << rec[2] >>).docs]
    /\ last' = [op |-> "ingest", calls |-> {}, days_back |-> 0]
    /\ UNCHANGED << users, api, summaries, now, upload, processed, down, records,
                    recOrder, pc, queue, todo, cur, idx, input, phase, baseline >>

EmaNext ==
    \/ IngestEmaRow
    \/ GenerateDailySummaries
    \/ BaseGenerateDailySummary

SpecEma == EmaInit /\ [][EmaNext]_vars

\* The prompt ids of the EMA status events of a status in a window.
StatusIds(st, uid, start, end, status) ==
    { x.ema_id : x \in { d \in st[EMA_STATUS_EVENTS] :
                           InWindow(d, uid, start, end) /\ d.status = status } }

\* The prompt ids of the EMA responses in a window.
ResponseIds(st, uid, start, end) ==
    { x.ema_id : x \in { d \in st[EMA_RESPONSE] : InWindow(d, uid, start, end) } }

\* The scheduled ids, the completed ids and the scored ids a summary
\* reports, whichever implementation built it.
ScheduledOf(s) ==
    IF "scheduled_emas" \in DOMAIN s THEN s.scheduled_emas
    ELSE { s.ema.scheduled[i].ema_id : i \in 1..Len(s.ema.scheduled) }

CompletedOf(s) == IF "completed_emas" \in DOMAIN s THEN s.completed_emas ELSE << >>

ScoredOf(s) == IF "depression_scores" \in DOMAIN s THEN DOMAIN s.depression_scores ELSE {}

\* C25: EMA compliance.  The summary an aggregation call computes for a
\* user and a window reports as scheduled exactly the prompt ids of the
\* ingested scheduled status events of the window, as completed exactly
\* those of the completed status events, each id once, and holds a score
\* for exactly the completed ids that an ingested response of the window
\* carries.
C25_EmaCompliance ==
    last.op \in { "today", "backfill", "base" } =>
      \A c \in last.calls :
        LET s == c.summary
            completed == CompletedOf(s)
        IN  /\ ScheduledOf(s) = StatusIds(store, c.uid, c.start, c.end, "scheduled")
            /\ Range(completed) = StatusIds(store, c.uid, c.start, c.end, "completed")
            /\ \A i, j \in 1..Len(completed) : completed[i] = completed[j] => i = j
            /\ ScoredOf(s) = StatusIds(store, c.uid, c.start, c.end, "completed")
                               \cap ResponseIds(store, c.uid, c.start, c.end)

(***************************************************************************)
(* The API endpoints that write: Login, UserInfo, PhonePing, UploadFile    *)
(* and UploadJSON, answering requests in any order.                        *)
(***************************************************************************)
\* save_info: update_one({'uid': uid}, {'$set': {key: value}}), which
\* changes nothing without a document of the user.
SaveInfo(us, uid, key, value) ==
    { IF d.uid = uid THEN SetField(d, key, value) ELSE d : d \in us }

\* UserInfo.post on a request that passes UserInfoSchema.
UserInfoPost ==
    /\ \E uid \in { "u1", "u9" }, auth \in AuthChoices :
         /\ users' = IF auth = { AuthKey }
                     THEN SaveInfo(users, uid, "phone_model", "x")
                     ELSE users
         /\ last' = [op |-> "user_info", auth |-> auth, uid |-> uid,
                     code |-> IF auth = { AuthKey } THEN 200 ELSE 403]
    /\ UNCHANGED << api, summaries, now, upload, processed, store, down, records,
                    recOrder, pc, queue, todo, cur, idx, input, phase, baseline >>

\* save_user_ping: the time of the ping goes to <device>_last_ping of the
\* user's document and a document of the ping to user_pings.
SaveUserPing(a, uid, device, device_type, t) ==
    [a EXCEPT !.pings = @ \cup { [uid |-> uid, device |-> device,
                                  device_type |-> device_type,
                                  timestamp |-> << t, 0 >>] }]

\* PhonePing.post on a request that passes UserPingSchema (device_type is
\* 'unknown' when the request has none).
PhonePingPost ==
    /\ \E uid \in { "u1" }, device_type \in { "unknown", "iPhone" }, auth \in AuthChoices :
         /\ users' = IF auth = { AuthKey }
                     THEN SaveInfo(users, uid, "ios" \o "_last_ping", << now, 0 >>)
                     ELSE users
         /\ api' = IF auth = { AuthKey }
                   THEN SaveUserPing(api, uid, "ios", device_type, now)
                   ELSE api
         /\ last' = [op |-> "ping", auth |-> auth, uid |-> uid,
                     code |-> IF auth = { AuthKey } THEN 200 ELSE 403]
    /\ UNCHANGED << summaries, now, upload, processed, store, down, records,
                    recOrder, pc, queue, todo, cur, idx, input, phase, baseline >>

\* save_json_data: the data is written to answers_<time>.json under the
\* user's directory of the data type (a file of the same second is
\* replaced).
SaveJsonData(a, uid, data, data_type, t) ==
    [a EXCEPT !.json = { f \in @ : ~(f.uid = uid /\ f.data_type = data_type /\ f.time = t) }
                         \cup { [uid |-> uid, data_type |-> data_type, time |-> t,
                                 data |-> data] }]

\* UploadJSON.post on a JSON body: 400 without uid or data, else the data
\* is saved and the answer is 200.  The handler reads no auth_key.
UploadJSONPost ==
    /\ \E uid \in { "u1" }, data \in { "", "answers" }, auth \in AuthChoices :
         /\ api' = IF data # ""
                   THEN SaveJsonData(api, uid, data, "news_task", now)
                   ELSE api
         /\ last' = [op |-> "upload_json", auth |-> auth, uid |-> uid,
                     code |-> IF data # "" THEN 200 ELSE 400]
    /\ UNCHANGED << users, summaries, now, upload, processed, store, down, records,
                    recOrder, pc, queue, todo, cur, idx, input, phase, baseline >>

ApiInit ==
    /\ store = [c \in Collections |-> {}]
    /\ summaries = {}
    /\ now = Midnight(0) + 120
    /\ users = InitialUsers
    /\ api = NoApiData
    /\ idx = 0
    /\ last = [op |-> "init", auth |-> { AuthKey }, uid |-> "", code |-> 200]
    /\ pc = "idle"
    /\ upload = {}
    /\ processed = {}
    /\ input = {}
    /\ down = "none"
    /\ records = [c \in Collections |-> << >>]
    /\ recOrder = << >>
    /\ queue = << >>
    /\ todo = {}
    /\ cur = {}
    /\ phase = 1
    /\ baseline = Counts(store)

ApiNext ==
    \/ LoginPost
    \/ UserInfoPost
    \/ PhonePingPost
    \/ UploadFilePost
    \/ UploadJSONPost

SpecApi == ApiInit /\ [][ApiNext]_vars

MaxClassified == 2

\* The type codes of the if/elif chain of _process_event_by_id.
DispatchCodes ==
    { 152, 151, 16, 21, 11, 111, 18, 181, 19, 13, 14, 447, 23, 442, 443,
      501, 502, 503, 504 }

ClassifierRows ==
    { [ts |-> ts, code |-> code, ncols |-> shape[1], payload |-> shape[2]] :
        ts \in RawTimestamps, code \in DispatchCodes \cup { 999 },
        shape \in { << 4, "ok" >>, << 5, "ok" >>, << 5, "malformed" >> } }

ClassifyInit ==
    /\ store = [c \in Collections |-> {}]
    /\ records = [c \in Collections |-> << >>]
    /\ recOrder = << >>
    /\ down = "none"
    /\ idx = 0
    /\ last = [op |-> "init", row |-> Row(0, 0, "ok"), out |-> {}]
    /\ pc = "idle"
    /\ upload = {}
    /\ processed = {}
    /\ input = {}
    /\ queue = << >>
    /\ todo = {}
    /\ cur = {}
    /\ phase = 1
    /\ baseline = Counts(store)
    /\ summaries = {}
    /\ now = 0
    /\ users = InitialUsers
    /\ api = NoApiData

\* One call of _process_event_by_id from the row loop: the handler of the
\* row's type code builds a record or none, and the record goes through
\* add_record.
ProcessEventById ==
    /\ idx < MaxClassified
    /\ \E row \in ClassifierRows :
         LET out == ProcessRow("u1", row) IN
         /\ IF out = {}
            THEN UNCHANGED << store, records, recOrder >>
            ELSE LET rec == CHOOSE x \in out : TRUE
                     r == AddRecord(store, records, recOrder, rec[1], rec[2])
                 IN  /\ store' = r.store
                     /\ records' = r.records
                     /\ recOrder' = r.order
         /\ last' = [op |-> "classify", row |-> row, out |-> out]
    /\ idx' = idx + 1
    /\ UNCHANGED << users, api, summaries, now, upload, processed, down, pc, queue,
                    todo, cur, input, phase, baseline >>

\* The end of the row loop: flush_records() over every buffer.
FlushClassified ==
    /\ idx > 0
    /\ recOrder # << >>
    /\ LET f == FlushRecords(recOrder, store, records)
       IN  /\ store' = f.store
           /\ records' = f.records
    /\ last' = [op |-> "flush", row |-> last.row, out |-> {}]
    /\ UNCHANGED << users, api, summaries, now, upload, processed, down, recOrder, pc,
                    queue, todo, cur, idx, input, phase, baseline >>

ClassifyNext ==
    \/ ProcessEventById
    \/ FlushClassified

SpecClassify == ClassifyInit /\ [][ClassifyNext]_vars

\* C28: every record a handler of the dispatch table builds has the type
\* code of its row (row[3]) as event_id, and so has every document that
\* reaches the buffers and the store: the code of a document is one its
\* collection is the destination of.
C28_EventIdIsTypeCode ==
    /\ last.op = "classify" => \A rec \in last.out : rec[2].event_id = last.row.code
    /\ \A c \in Collections :
         \A d \in store[c] \cup Range(records[c]) :
           HandlerCollection(HandlerOf(d.event_id)) = c

\* The files the upload endpoint accepts for ingestion (extension db or
\* fit), as save_file stores them: under their own name or, when the name
\* is taken, under the name with the .duplicate suffix.
AcceptedFiles ==
    LET ok == { f \in UploadChoices : f.name.ext \in { "db", "fit" } }
    IN  ok \cup { [f EXCEPT !.name.dup = TRUE] : f \in ok }

\* C29: with runs that keep being scheduled, every file the upload endpoint
\* accepted and stored in the upload location, under its own name or under
\* a .duplicate name, is eventually in the processed location.
C29_UploadedEventuallyArchived ==
    \A f \in AcceptedFiles : (f \in upload) ~> (f \in processed)

\* The same for the files stored under their own name only.
OwnNameEventuallyArchived ==
    \A f \in AcceptedFiles : (f \in upload /\ ~f.name.dup) ~> (f \in processed)

====
